---- MODULE Spec2Model ----
(***************************************************************************)
(* A model of the fensak-io/reng rules engine.                             *)
(*                                                                         *)
(* Part F, the sandbox interpreter (runRule): the host event loop with its *)
(* timers, the promise runRule returns, the step loop with its sleeps and  *)
(* its timeout, and the host bridge (getInput, setOutput, console) that    *)
(* the guest program reaches through its top-level scope.                  *)
(*                                                                         *)
(* Time is the host clock in milliseconds.  The JavaScript thread runs one *)
(* synchronous block at a time (thread), so timer callbacks and further    *)
(* runRule calls happen only while every invocation is suspended at its    *)
(* await or has returned.                                                  *)
(***************************************************************************)
EXTENDS Integers, Sequences, FiniteSets, TLC

VARIABLES
  thread,      \* the invocation whose synchronous block is executing, 0 when idle
  now,         \* the host clock, ms
  budget,      \* runRule calls the caller still makes
  hostConsole, \* what reached the host's native console (Console mode)
  call,        \* per invocation: the arguments of runRule, the caller's objects
  invoked,     \* per invocation: what the arguments held when runRule was called
  phase,       \* per invocation: position of the async function
  logMode,     \* per invocation: `logMode`
  result,      \* per invocation: the `result` record {approve, logs}
  interp,      \* per invocation: the state of the guest interpreter
  rejected,    \* per invocation: `rejected`
  sleeping,    \* per invocation: `sleeping` holds a timer handle (is not null)
  sleepAt,     \* per invocation: expiry of the pending sleep timer, -1 when none is pending
  toutAt,      \* per invocation: expiry of the pending timeout timer `tout`, -1 when none
  iterations,  \* per invocation: `iterations`
  settles,     \* per invocation: the calls made to the promise's resolve / reject, in order
  gh,          \* the call of patchFromGitHubPullRequest
  bb,          \* the call of patchFromBitBucketPullRequest
  fn           \* the application of a pure function: its argument and its result

vars == <<thread, now, budget, hostConsole, call, invoked, phase, logMode, result, interp,
          rejected, sleeping, sleepAt, toutAt, iterations, settles, gh, bb, fn>>

\* What runRule's invocations read and write.
runRuleVars == <<thread, now, budget, hostConsole, call, invoked, phase, logMode, result, interp,
                 rejected, sleeping, sleepAt, toutAt, iterations, settles>>

---------------------------------------------------------------------------
(* Program constants *)

maxUDRRuntime == 5000
maxStepIterationsBeforeSleep == 100
sleepBetweenStepIterations == 100

(* Bounds of the model *)

\* The invocations the caller may have in flight together.
MaxRuns == 2
\* Guest loops that end run between maxStepIterationsBeforeSleep - BusySpread
\* and maxStepIterationsBeforeSleep + 1 micro-steps, so that the sleep falls at
\* each place of the harness.
BusySpread == 4
\* Rules that need one batch of steps, or up to BudgetSpread micro-steps fewer
\* or more.
BudgetSpread == 1

\* The longest patch list the caller's array grows to.
MaxPatches == 2
\* The entries of fensak.linked a description has, at most.
MaxLinked == 3
\* The lines of one file a hunk's body covers, at most.
MaxHunkLines == 3
\* The items of a sequence in a parsed file, at most.
MaxItems == 2

Runs == 1..MaxRuns

---------------------------------------------------------------------------
(* Guest values: <<typeof, payload>>.                                      *)

VTrue == <<"boolean", "T">>
VFalse == <<"boolean", "F">>
VUndefined == <<"undefined", "">>
VNull == <<"null", "">>
VStr(s) == <<"string", s>>
VNum(digits) == <<"number", digits>>

TypeOf(v) == IF v[1] = "null" THEN "object" ELSE v[1]

\* String coercion, `${o}`.
ToStr(v) ==
  CASE v[1] = "boolean" -> (IF v[2] = "T" THEN "true" ELSE "false")
    [] v[1] = "undefined" -> "undefined"
    [] v[1] = "null" -> "null"
    [] OTHER -> v[2]

RECURSIVE JoinSpace(_)
JoinSpace(msgs) ==
  IF msgs = <<>> THEN ""
  ELSE IF Len(msgs) = 1 THEN msgs[1]
  ELSE msgs[1] \o " " \o JoinSpace(Tail(msgs))

objsToString(objs) == JoinSpace([i \in 1..Len(objs) |-> ToStr(objs[i])])

\* JSON.stringify of a guest value: text, or "undefined" (no text) for undefined.
JSONstringify(v) ==
  CASE v[1] = "boolean" -> (IF v[2] = "T" THEN "true" ELSE "false")
    [] v[1] = "string" -> "\"" \o v[2] \o "\""
    [] v[1] = "number" -> v[2]
    [] v[1] = "null" -> "null"
    [] OTHER -> "undefined"

JSONValues == {VTrue, VFalse, VNull, VStr("yes"), VNum("1")}

\* JSON.parse of a text; texts that are no JSON do not parse.
JSONparses(text) == \E v \in JSONValues : JSONstringify(v) = text
JSONparse(text) == CHOOSE v \in JSONValues : JSONstringify(v) = text

---------------------------------------------------------------------------
(* The arguments of runRule.                                               *)

\* Patch objects as the caller holds them: a field may be undefined.
PatchA == [path |-> VStr("foo.txt"), op |-> VStr("insert"), objectDiff |-> VUndefined]
PatchB == [path |-> VStr("bar.json"), op |-> VStr("modified"), objectDiff |-> VNull]
PatchLists == {<<>>, <<PatchA>>, <<PatchB, PatchA>>}

nullMeta == [sourceBranch |-> VStr("foo"), targetBranch |-> VStr("bar"),
             linkedPRs |-> VUndefined]
Metadatas == {nullMeta}

\* opts: absent, present without logMode, or present with one of the modes.
OptsValues == {"noOpts", "noLogMode", "drop", "console", "capture"}

\* let logMode = RuleLogMode.Drop; if (opts && opts.logMode) logMode = opts.logMode
LogModeOf(opts) == IF opts \in {"noOpts", "noLogMode"} THEN "drop" ELSE opts

\* JSON.stringify of an object leaves out the members whose value is undefined.
JSONobject(o) == [f \in {g \in DOMAIN o : o[g] # VUndefined} |-> o[f]]

\* getInput: JSON.stringify({patches: patchList, metadata: changeSetMetadata}),
\* the text given by the content it encodes.
getInput(patchList, changeSetMetadata) ==
  [patches |-> [i \in 1..Len(patchList) |-> JSONobject(patchList[i])],
   metadata |-> JSONobject(changeSetMetadata)]

---------------------------------------------------------------------------
(* Guest programs.  ruleFn is top-level statements (top) and the function  *)
(* main: statements (body) and the returned expression (ret).  One         *)
(* statement is one micro-step of the interpreter, a loop is as many as it *)
(* iterates.  Ref evaluates an identifier; TryRef evaluates it inside a    *)
(* try statement whose catch clause goes on: try { x } catch (e) {}.       *)

Console(method, objs) == [k |-> "console", m |-> method, args |-> objs, n |-> 0]
SetOutput(jsonOut) == [k |-> "setOutput", m |-> jsonOut, args |-> <<>>, n |-> 0]
Ref(identifier) == [k |-> "ref", m |-> identifier, args |-> <<>>, n |-> 0]
TryRef(identifier) == [k |-> "tryRef", m |-> identifier, args |-> <<>>, n |-> 0]
Throw(message) == [k |-> "throw", m |-> message, args |-> <<>>, n |-> 0]
Assign(name) == [k |-> "assign", m |-> name, args |-> <<>>, n |-> 0]
Busy(count) == [k |-> "busy", m |-> "", args |-> <<>>, n |-> count]
WhileTrue == [k |-> "loop", m |-> "", args |-> <<>>, n |-> 0]

\* The harness runRule appends to ruleFn.
HarnessGetInput == [k |-> "harnessGetInput", m |-> "", args |-> <<>>, n |-> 0]
HarnessMainReturns(ret) == [k |-> "harnessMain", m |-> ret, args |-> <<>>, n |-> 0]
HarnessCheck == [k |-> "harnessCheck", m |-> "", args |-> <<>>, n |-> 0]
HarnessSetOutput == [k |-> "harnessSetOutput", m |-> "", args |-> <<>>, n |-> 0]

Prog(top, body, ret) == [top |-> top, body |-> body, ret |-> ret]

\* const code = `${ruleFn} var inp = ...; var out = main(...); if ...; setOutput(...)`
Code(ruleFn) ==
  ruleFn.top \o <<HarnessGetInput>> \o ruleFn.body
    \o <<HarnessMainReturns(ruleFn.ret), HarnessCheck, HarnessSetOutput>>

BoolValue(b) == IF b THEN VTrue ELSE VFalse

\* The value main returns, by the expression it returns.
EvalRet(ret, inp) ==
  CASE ret = "true" -> VTrue
    [] ret = "false" -> VFalse
    [] ret = "sanity" ->
         BoolValue(Len(inp.patches) = 1
                   /\ "sourceBranch" \in DOMAIN inp.metadata
                   /\ inp.metadata.sourceBranch = VStr("foo"))
    [] ret = "hasObjectDiff" ->
         BoolValue(Len(inp.patches) > 0 /\ "objectDiff" \in DOMAIN inp.patches[1])
    [] ret = "string" -> VStr("hello world")
    [] ret = "length" -> VNum(ToString(Len(inp.patches)))
    [] OTHER -> VUndefined

---------------------------------------------------------------------------
(* The interpreter: new Interpreter(code, init) and interpreter.step().    *)

\* Mutant: the init function also hands the host's fetch to the guest.
HostBridgeWithFetch == {"console", "getInput", "setOutput", "fetch"}

\* The names the init function binds into the guest's top-level scope.
HostBridge == {"console", "getInput", "setOutput"}

\* Names the guest language and ruleFn define themselves.
GuestGlobals == {"main", "JSON", "Error"}

\* result = {approve: false, logs: []}
NewResult == [approve |-> VFalse, logs |-> <<>>]

NewInterpreter ==
  [pc |-> 1, done |-> 0, inp |-> <<>>, out |-> VUndefined,
   natives |-> HostBridge, guestNames |-> GuestGlobals]

\* Mutant: console.log captures with the level of console.debug.
LevelOfLogAsDebug(method) ==
  CASE method = "log" -> "debug"
    [] method = "info" -> "info"
    [] method = "debug" -> "debug"
    [] method = "warn" -> "warn"
    [] method = "error" -> "error"

\* The level each console method captures with.
LevelOf(method) ==
  CASE method = "log" -> "info"
    [] method = "info" -> "info"
    [] method = "debug" -> "debug"
    [] method = "warn" -> "warn"
    [] method = "error" -> "error"

\* What one call of step() did: it returned true or false, or it threw err.
Returned(ret, st, res, hc) ==
  [ret |-> ret, err |-> "", interp |-> st, result |-> res, hostConsole |-> hc]
Threw(err, st, res, hc) ==
  [ret |-> "throw", err |-> err, interp |-> st, result |-> res, hostConsole |-> hc]

Advance(st) == [st EXCEPT !.pc = @ + 1, !.done = 0]

\* Mutant: the entry goes to the front of the list.
PushLogFront(logs, entry) == <<entry>> \o logs

\* result.logs.push(entry)
PushLog(logs, entry) == Append(logs, entry)

\* The native function behind a console method.
NativeConsole(method, objs, mode, st, res, hc) ==
  CASE mode = "console" -> Returned("true", Advance(st), res, Append(hc, <<method, objs>>))
    [] mode = "capture" ->
         Returned("true", Advance(st),
                  [res EXCEPT !.logs = PushLog(@, [level |-> LevelOf(method),
                                                    msg |-> objsToString(objs)])],
                  hc)
    [] OTHER -> Returned("true", Advance(st), res, hc)

\* The native function behind setOutput: result.approve = JSON.parse(jsonOut)
NativeSetOutput(jsonOut, st, res, hc) ==
  IF JSONparses(jsonOut)
  THEN Returned("true", Advance(st), [res EXCEPT !.approve = JSONparse(jsonOut)], hc)
  ELSE Threw("Unexpected token in JSON", st, res, hc)

\* A call of the global `setOutput`: the host's native function unless the guest
\* has assigned the name a function of its own.
CallSetOutput(jsonOut, st, res, hc) ==
  IF "setOutput" \in st.natives
  THEN NativeSetOutput(jsonOut, st, res, hc)
  ELSE Returned("true", Advance(st), res, hc)

\* Mutant: the harness only checks that main returned something.
IsNotBooleanLoose(out) == TypeOf(out) = "undefined"

\* typeof out !== "boolean"
IsNotBoolean(out) == TypeOf(out) # "boolean"

\* One micro-step on the statement at pc.
ExecOp(op, args, mode, st, res, hc) ==
  CASE op.k = "console" ->
         IF "console" \in st.natives
         THEN NativeConsole(op.m, op.args, mode, st, res, hc)
         ELSE Returned("true", Advance(st), res, hc)
    [] op.k = "setOutput" -> CallSetOutput(op.m, st, res, hc)
    [] op.k = "ref" ->
         IF op.m \in st.natives \cup st.guestNames
         THEN Returned("true", Advance(st), res, hc)
         ELSE Threw(op.m \o " is not defined", st, res, hc)
    [] op.k = "tryRef" -> Returned("true", Advance(st), res, hc)
    [] op.k = "throw" -> Threw(op.m, st, res, hc)
    [] op.k = "assign" ->
         Returned("true",
                  Advance([st EXCEPT !.natives = @ \ {op.m},
                                     !.guestNames = @ \cup {op.m}]),
                  res, hc)
    [] op.k = "busy" ->
         IF st.done + 1 >= op.n
         THEN Returned("true", Advance(st), res, hc)
         ELSE Returned("true", [st EXCEPT !.done = @ + 1], res, hc)
    [] op.k = "loop" -> Returned("true", st, res, hc)
    [] op.k = "harnessGetInput" ->
         Returned("true",
                  Advance([st EXCEPT !.inp = <<getInput(args.patchList, args.metadata)>>]),
                  res, hc)
    [] op.k = "harnessMain" ->
         Returned("true", Advance([st EXCEPT !.out = EvalRet(op.m, st.inp[1])]), res, hc)
    [] op.k = "harnessCheck" ->
         IF IsNotBoolean(st.out)
         THEN Threw("main function must return boolean (returned " \o ToStr(st.out) \o ")",
                    st, res, hc)
         ELSE Returned("true", Advance(st), res, hc)
    [] op.k = "harnessSetOutput" -> CallSetOutput(JSONstringify(st.out), st, res, hc)

\* interpreter.step(): false once the program has run to its end.
InterpreterStep(args, mode, st, res, hc) ==
  IF st.pc > Len(Code(args.ruleFn))
  THEN Returned("false", st, res, hc)
  ELSE ExecOp(Code(args.ruleFn)[st.pc], args, mode, st, res, hc)

---------------------------------------------------------------------------
(* The calls of runRule the caller makes.                                  *)

Call(ruleFn, patchList, changeSetMetadata, opts) ==
  [ruleFn |-> ruleFn, patchList |-> patchList, metadata |-> changeSetMetadata,
   opts |-> opts]

NoCall == Call(Prog(<<>>, <<>>, "true"), <<>>, nullMeta, "noOpts")

Methods == {"log", "info", "debug", "warn", "error"}
ForbiddenIds == {"fetch", "XMLHttpRequest", "process", "Deno"}
Hello == VStr("hello")
World == VStr("world")

Rets == {"true", "false", "sanity", "hasObjectDiff", "string", "length"}

ShortBodies ==
  {<<>>,
   <<Console("log", <<VStr("hello world")>>)>>,
   <<Console("log", <<Hello, World>>)>>,
   <<Console("log", <<Hello>>), Console("log", <<World>>)>>,
   <<Console("warn", <<Hello>>), Console("debug", <<>>), Console("error", <<World>>)>>,
   <<Ref("console")>>,
   <<SetOutput("true"), Assign("setOutput")>>,
   <<SetOutput("\"yes\""), Assign("setOutput")>>,
   <<Assign("setOutput")>>,
   <<Throw("boom")>>,
   <<Console("error", <<Hello>>), SetOutput("true"), Throw("boom")>>}
  \cup {<<Console(m, <<Hello, VNum("1"), VTrue, VNull, VUndefined>>)>> : m \in Methods}
  \cup {<<Ref(x)>> : x \in ForbiddenIds}
  \cup {<<Console("log", <<Hello>>), SetOutput("true"), Ref(x)>> : x \in ForbiddenIds}
  \cup {<<SetOutput(JSONstringify(v))>> : v \in JSONValues}

BusyCounts ==
  (maxStepIterationsBeforeSleep + 1 - BusySpread) .. (maxStepIterationsBeforeSleep + 1)

\* Programs whose loops end: the sleep falls before, inside or after the harness.
BusyPrograms ==
  {Prog(<<Busy(c)>>, b, v) :
     c \in BusyCounts,
     b \in {<<>>, <<Console("log", <<Hello>>), SetOutput("\"yes\"")>>},
     v \in {"sanity", "string"}}
  \cup {Prog(<<>>, <<Console("info", <<Hello>>), Busy(c), Console("warn", <<World>>)>>, "true") :
          c \in BusyCounts}
  \cup {Prog(<<>>, <<Busy(c), Ref("fetch")>>, "true") : c \in BusyCounts}

\* Programs that never end: function main() { while (true) {} ... }
LoopPrograms ==
  {Prog(<<>>, <<WhileTrue>>, "string"),
   Prog(<<>>, <<Console("log", <<Hello>>), SetOutput("true"), WhileTrue>>, "true")}

Calls ==
  {Call(Prog(<<>>, b, v), pl, md, o) :
     b \in ShortBodies, v \in Rets, pl \in PatchLists, md \in Metadatas, o \in OptsValues}
  \cup {Call(Prog(<<>>, <<TryRef(x)>>, v), <<PatchA>>, nullMeta, "noOpts") :
          x \in ForbiddenIds, v \in {"true", "sanity"}}
  \cup {Call(p, <<PatchA>>, nullMeta, o) : p \in BusyPrograms, o \in {"noOpts", "capture"}}
  \cup {Call(p, <<>>, nullMeta, o) : p \in LoopPrograms, o \in {"noLogMode", "capture"}}

---------------------------------------------------------------------------
(* The promise runRule returns.                                            *)

\* Mutant: one result object at module level, shared by the invocations.
ResultCellShared(r) == 1

\* const result: each invocation of runRule makes the result object its native
\* functions write and its promise resolves with.
ResultCell(r) == r

\* resolve(result) and reject(e), as calls on the promise's two functions.
ResolveCall == [kind |-> "resolve", error |-> ""]
RejectCall(e) == [kind |-> "reject", error |-> e]

TimeoutError == "user defined rule timed out"

\* Mutant: the timeout's callback hands out what the rule produced so far.
OnTimeoutResolves(r) == Append(settles[r], ResolveCall)

\* Mutant: the timeout's callback sets the flag and forgets to reject.
OnTimeoutForgotten(r) == settles[r]

\* reject(new Error("user defined rule timed out")) in the timeout's callback
OnTimeout(r) == Append(settles[r], RejectCall(TimeoutError))

\* Mutant: a guest exception ends the run with what the rule produced so far.
OnThrowResolves(r, e) == Append(settles[r], ResolveCall)

\* catch (e) { reject(e) }
OnThrow(r, e) == Append(settles[r], RejectCall(e))
\* resolve(result) after the loop
OnEnd(r) == Append(settles[r], ResolveCall)

\* A promise is settled by the first call of resolve or reject; later calls do
\* nothing.  A resolved promise holds the `result` object.
PromiseState(r) ==
  IF settles[r] = <<>> THEN "pending"
  ELSE IF settles[r][1].kind = "resolve" THEN "resolved" ELSE "rejected"
PromiseError(r) == settles[r][1].error
PromiseValue(r) == result[ResultCell(r)]

---------------------------------------------------------------------------
(* The host's timers.                                                      *)

PendingExpiries ==
  {toutAt[r] : r \in {q \in Runs : toutAt[q] >= 0}}
    \cup {sleepAt[r] : r \in {q \in Runs : sleepAt[q] >= 0}}

\* A timer whose expiry has come runs when the thread is idle and no timer that
\* expires earlier is pending; timers of one expiry run in either order.
MayFire(expiry) ==
  /\ thread = 0
  /\ expiry >= 0
  /\ expiry <= now
  /\ \A e \in PendingExpiries : e >= expiry

---------------------------------------------------------------------------
(* Parts D, E and G, the source adapters: patchFromGitHubPullRequest and   *)
(* patchFromBitBucketPullRequest turn a pull request of the forge into     *)
(* PullRequestPatches.  Every await of a forge call is a step; what the    *)
(* forge answers is the step's input.                                      *)

\* T | null, as a sequence of at most one element.
Null == <<>>
Some(x) == <<x>>

PatchOpInsert == "insert"
PatchOpDelete == "delete"
PatchOpModified == "modified"
PatchOpUnknown == "unknown"

\* The repository and the pull request the adapter is called for.
HostRepo == [owner |-> "fensak-test", name |-> "host-repo"]
HostPRNum == 7
OtherRepoName == "other-repo"

\* File names: a stem, and an extension after the last dot.
Stems == {"app", "old", "vars", ""}
Exts == {"json", "json5", "yaml", "yml", "toml", "tfvars", "JSON"}
Dotted(stem, ext) == stem \o "." \o ext
DottedNames == {Dotted(s, e) : s \in Stems, e \in Exts}

\* /(?:\.([^.]+))?$/.exec(fname)[1]: what follows the last dot, undefined ("")
\* when the name has no dot.
ExtOf(fname) ==
  IF fname \in DottedNames
  THEN CHOOSE e \in Exts : \E s \in Stems : fname = Dotted(s, e)
  ELSE ""

supportedObjectExtensions == {"json", "json5", "yaml", "yml", "toml"}

\* objectParserFromFilename: the parser of the file's type, by name; "null" when
\* the extension is not a supported one.
objectParserFromFilename(fname) ==
  IF ExtOf(fname) \notin supportedObjectExtensions THEN "null"
  ELSE CASE ExtOf(fname) = "json" -> "JSON.parse"
         [] ExtOf(fname) = "json5" -> "JSON5.parse"
         [] ExtOf(fname) \in {"yaml", "yml"} -> "YAML.parse"
         [] ExtOf(fname) = "toml" -> "toml.parse"

\* File contents the forge holds: text of the file's format, or text no parser
\* accepts.
JsonV1 == "{\"subapp\": \"v1\"}"
JsonV2 == "{\"subapp\": \"v2\", \"logapp\": \"v9\"}"
TomlV1 == "subapp = \"v1\""
TomlV2 == "logapp = \"v9\"\nsubapp = \"v1\""
BrokenText == "{"
TextsOf(fname) ==
  IF ExtOf(fname) = "toml" THEN {TomlV1, TomlV2, BrokenText}
  ELSE {JsonV1, JsonV2, BrokenText}

\* A parsed value: a scalar, or a map or a sequence with its members in order,
\* [k, v]; the keys of a sequence are its indices, as for (key in obj) gives them.
Member(k, v) == [k |-> k, v |-> v]
Scalar(s) == [kind |-> "scalar", val |-> s, members |-> <<>>]
MapOf(members) == [kind |-> "map", val |-> "", members |-> members]
SeqOf(items) ==
  [kind |-> "seq", val |-> "",
   members |-> [i \in 1..Len(items) |-> Member(ToString(i - 1), items[i])]]
TreeV1 == MapOf(<<Member("subapp", Scalar("v1"))>>)
TreeV2 == MapOf(<<Member("subapp", Scalar("v2")), Member("logapp", Scalar("v9"))>>)
TreeT2 == MapOf(<<Member("logapp", Scalar("v9")), Member("subapp", Scalar("v1"))>>)

\* parser(contents): [ok, tree]; the parser throws when ok is FALSE.
Parse(parser, contents) ==
  CASE parser \in {"JSON.parse", "JSON5.parse", "YAML.parse"} /\ contents = JsonV1 ->
         [ok |-> TRUE, tree |-> TreeV1]
    [] parser \in {"JSON.parse", "JSON5.parse", "YAML.parse"} /\ contents = JsonV2 ->
         [ok |-> TRUE, tree |-> TreeV2]
    [] parser = "toml.parse" /\ contents = TomlV1 -> [ok |-> TRUE, tree |-> TreeV1]
    [] parser = "toml.parse" /\ contents = TomlV2 -> [ok |-> TRUE, tree |-> TreeT2]
    [] OTHER -> [ok |-> FALSE, tree |-> <<>>]

Keys(obj) == {obj.members[i].k : i \in 1..Len(obj.members)}
ValueAt(obj, k) == obj.members[CHOOSE i \in 1..Len(obj.members) : obj.members[i].k = k].v

\* An element of a difference's path: the key, or the number +key in an array.
PathKey(k, isArray) == [key |-> k, index |-> isArray]
Difference(type, pathKey, value, oldValue) ==
  [type |-> type, path |-> <<pathKey>>, value |-> value, oldValue |-> oldValue]

RECURSIVE diff(_, _)

\* microdiff over the keys of obj: REMOVE for a key newObj lacks; for a key of
\* both, the differences of the two values when both are maps or both are
\* arrays, with the key put before their paths, else CHANGE when the values differ.
RECURSIVE DiffOld(_, _, _)
DiffOld(obj, newObj, i) ==
  IF i > Len(obj.members) THEN <<>>
  ELSE LET key == obj.members[i].k
           objKey == obj.members[i].v
           path == PathKey(key, obj.kind = "seq")
       IN  (IF key \notin Keys(newObj)
            THEN <<Difference("REMOVE", path, Null, Some(objKey))>>
            ELSE LET newObjKey == ValueAt(newObj, key)
                     nested == diff(objKey, newObjKey)
                 IN  IF objKey.kind # "scalar" /\ objKey.kind = newObjKey.kind
                     THEN [j \in 1..Len(nested) |->
                             [nested[j] EXCEPT !.path = <<path>> \o nested[j].path]]
                     ELSE IF objKey # newObjKey
                     THEN <<Difference("CHANGE", path, Some(newObjKey), Some(objKey))>>
                     ELSE <<>>)
           \o DiffOld(obj, newObj, i + 1)

\* Mutant: the keys that only newObj has are not reported.
DiffNewNothing(obj, newObj, i) == <<>>

\* microdiff over the keys of newObj: CREATE for a key obj lacks.
RECURSIVE DiffNew(_, _, _)
DiffNew(obj, newObj, i) ==
  IF i > Len(newObj.members) THEN <<>>
  ELSE (IF newObj.members[i].k \notin Keys(obj)
        THEN <<Difference("CREATE", PathKey(newObj.members[i].k, newObj.kind = "seq"),
                          Some(newObj.members[i].v), Null)>>
        ELSE <<>>)
       \o DiffNew(obj, newObj, i + 1)

\* diff(prev, cur) of microdiff.
diff(prev, cur) == DiffOld(prev, cur, 1) \o DiffNew(prev, cur, 1)

ObjectDiff(previous, current, d) == [previous |-> previous, current |-> current, diff |-> d]

\* Mutant: a deleted file is given as the current tree.
ObjectDiffOfSwapped(op, trees) ==
  CASE op = PatchOpInsert -> ObjectDiff(Null, Some(trees[1]), <<>>)
    [] op = PatchOpDelete -> ObjectDiff(Some(trees[1]), Some(trees[1]), <<>>)
    [] op = PatchOpModified ->
         ObjectDiff(Some(trees[1]), Some(trees[2]), diff(trees[1], trees[2]))

\* getObjectDiff's return value for op, from the trees it parsed in the order it
\* fetched them.
ObjectDiffOf(op, trees) ==
  CASE op = PatchOpInsert -> ObjectDiff(Null, Some(trees[1]), <<>>)
    [] op = PatchOpDelete -> ObjectDiff(Some(trees[1]), Null, <<>>)
    [] op = PatchOpModified ->
         ObjectDiff(Some(trees[1]), Some(trees[2]), diff(trees[1], trees[2]))

\* getObjectDiff's switch (op): the contents it fetches, in order.
RefsFetched(op) ==
  CASE op = PatchOpInsert -> <<"head">>
    [] op = PatchOpDelete -> <<"base">>
    [] op = PatchOpModified -> <<"base", "head">>
    [] OTHER -> <<>>

Patch(path, op, additions, deletions, hunks, objectDiff) ==
  [path |-> path, op |-> op, additions |-> additions, deletions |-> deletions,
   diff |-> hunks, objectDiff |-> objectDiff]

\* The lines of a unified diff.  A hunk header @@ -O,OL +U,UL @@ as git writes it:
\* a length of 1 is omitted, and the start is 0 when the length is 0.
RangeText(length) ==
  IF length = 0 THEN "0,0" ELSE IF length = 1 THEN "1" ELSE "1," \o ToString(length)
HunkHeaderText(ol, ul) == "@@ -" \o RangeText(ol) \o " +" \o RangeText(ul) \o " @@"
HunkHeader == HunkHeaderText(2, 2)

\* The lines of a hunk's body, by the content of the file's line.
PlainContents == {"x", "y"}
DashContents == {"-- a/" \o p : p \in DottedNames}
PlusContents == {"++ b/" \o p : p \in DottedNames}
Contents == PlainContents \cup DashContents \cup PlusContents
RemovedLine(c) == "-" \o c
AddedLine(c) == "+" \o c
ContextLine(c) == " " \o c
NoNewline == "\\ No newline at end of file"

\* A hunk as the text of a diff: its header, counting the lines of the body.
HunkText(ol, ul, body) == <<HunkHeaderText(ol, ul)>> \o body

LineDiff(op, text, newText) == [op |-> op, text |-> text, newText |-> newText]

\* The header's numbers: OL and UL are 1 when omitted, and the start is reported
\* as 0 when the length is 0.
ParseHeader(line) ==
  LET found == {r \in (0..(MaxHunkLines + 1)) \X (0..(MaxHunkLines + 1)) :
                  line = HunkHeaderText(r[1], r[2])}
      r == CHOOSE r \in found : TRUE
  IN  IF found = {} THEN Null
      ELSE Some([originalStart |-> IF r[1] = 0 THEN 0 ELSE 1, originalLength |-> r[1],
                 updatedStart |-> IF r[2] = 0 THEN 0 ELSE 1, updatedLength |-> r[2],
                 diffOperations |-> <<>>])

\* The classification of a line of a hunk's body: "+" (not "+++") is an insert,
\* "-" (not "---") a delete, " " or the empty line untouched; a line that begins
\* with a backslash is ignored and a line with another prefix is skipped.
ClassifyLine(line) ==
  IF \E c \in PlainContents \cup DashContents : line = AddedLine(c)
  THEN Some(LineDiff("insert", CHOOSE c \in PlainContents \cup DashContents : line = AddedLine(c),
                     ""))
  ELSE IF \E c \in PlainContents \cup PlusContents : line = RemovedLine(c)
  THEN Some(LineDiff("delete", CHOOSE c \in PlainContents \cup PlusContents : line = RemovedLine(c),
                     ""))
  ELSE IF \E c \in Contents : line = ContextLine(c)
  THEN Some(LineDiff("untouched", CHOOSE c \in Contents : line = ContextLine(c), ""))
  ELSE IF line = "" THEN Some(LineDiff("untouched", "", ""))
  ELSE Null

\* The length of the run of entries with op that begins at from.
RunLength(ops, from, op) ==
  CHOOSE n \in 0..(Len(ops) - from + 1) :
    /\ \A j \in 0..(n - 1) : ops[from + j].op = op
    /\ from + n > Len(ops) \/ ops[from + n].op # op

\* Mutant: of unequal runs, as many lines are paired as the shorter run has and
\* the rest of the longer run is dropped.
RECURSIVE CoalesceShorter(_)
CoalesceShorter(ops) ==
  IF ops = <<>> THEN <<>>
  ELSE IF ops[1].op # "delete" THEN <<ops[1]>> \o CoalesceShorter(Tail(ops))
  ELSE LET nd == RunLength(ops, 1, "delete")
           ni == RunLength(ops, nd + 1, "insert")
           n == IF nd < ni THEN nd ELSE ni
       IN  [i \in 1..n |-> LineDiff("modified", ops[i].text, ops[nd + i].text)]
             \o CoalesceShorter(SubSeq(ops, nd + ni + 1, Len(ops)))

\* Modified coalescing: a run of Deletes immediately followed by a run of Inserts
\* of the same length becomes that many Modified entries, text the deleted line
\* and newText the inserted line; unequal runs are not paired.
RECURSIVE Coalesce(_)
Coalesce(ops) ==
  IF ops = <<>> THEN <<>>
  ELSE IF ops[1].op # "delete" THEN <<ops[1]>> \o Coalesce(Tail(ops))
  ELSE LET nd == RunLength(ops, 1, "delete")
           ni == RunLength(ops, nd + 1, "insert")
       IN  IF nd = ni
           THEN [i \in 1..nd |-> LineDiff("modified", ops[i].text, ops[nd + i].text)]
                  \o Coalesce(SubSeq(ops, nd + ni + 1, Len(ops)))
           ELSE SubSeq(ops, 1, nd + ni) \o Coalesce(SubSeq(ops, nd + ni + 1, Len(ops)))

\* The hunks of lines[i..], each with the classified lines of its body; what
\* precedes the first @@ header is not read.
RECURSIVE ParseFrom(_, _, _)
ParseFrom(lines, i, hunks) ==
  IF i > Len(lines) THEN hunks
  ELSE IF ParseHeader(lines[i]) # Null
  THEN ParseFrom(lines, i + 1, hunks \o ParseHeader(lines[i]))
  ELSE IF hunks = <<>>
  THEN ParseFrom(lines, i + 1, hunks)
  ELSE ParseFrom(lines, i + 1,
                 [hunks EXCEPT ![Len(hunks)].diffOperations = @ \o ClassifyLine(lines[i])])

\* parseUnifiedDiff(text), text given by its lines.
parseUnifiedDiff(lines) ==
  LET hunks == ParseFrom(lines, 1, <<>>)
  IN  [h \in 1..Len(hunks) |-> [hunks[h] EXCEPT !.diffOperations = Coalesce(@)]]

---------------------------------------------------------------------------
(* Part G, extractLinkedPRs: the front matter of the description.          *)

\* A value of the front matter: [t, items]; t is the value's kind, undefined for a
\* key that is absent, and items the elements of an array.
FMValue(t, items) == [t |-> t, items |-> items]
FMUndefined == FMValue("undefined", <<>>)
FMNull == FMValue("null", <<>>)
FMArray(items) == FMValue("array", items)

\* !v of JavaScript.
Falsy(v) == v.t \in {"undefined", "null", "false"}

\* An element of fensak.linked: repo is undefined when the key is absent.
LinkedEntry(hasRepo, repo, prNum) == [hasRepo |-> hasRepo, repo |-> repo, prNum |-> prNum]

\* The pull request's description: null, or a text, with the front matter's attrs
\* when hasParsableFrontMatter holds of it: fensak, and fensak.linked.
Description(isNull, text, parsable, fensak, linked) ==
  [isNull |-> isNull, text |-> text, parsable |-> parsable, fensak |-> fensak,
   linked |-> linked]

NoDescription == Description(TRUE, "", FALSE, FMUndefined, FMUndefined)
EmptyDescription == Description(FALSE, "", FALSE, FMUndefined, FMUndefined)
PlainDescription == Description(FALSE, "Bumps the version.", FALSE, FMUndefined, FMUndefined)
\* ---\nfoo: bar\n---
NoFensakDescription ==
  Description(FALSE, "---\nfoo: bar\n---\n", TRUE, FMUndefined, FMUndefined)
\* ---\nfensak:\n---  (the key with no value: null)
NullFensakDescription ==
  Description(FALSE, "---\nfensak:\n---\n", TRUE, FMNull, FMUndefined)
\* ---\nfensak:\n  foo: bar\n---
NoLinkedDescription ==
  Description(FALSE, "---\nfensak:\n  foo: bar\n---\n", TRUE, FMValue("object", <<>>),
              FMUndefined)
\* ---\nfensak:\n  linked:\n---
NullLinkedDescription ==
  Description(FALSE, "---\nfensak:\n  linked:\n---\n", TRUE, FMValue("object", <<>>), FMNull)
\* ---\nfensak:\n  linked:\n    - prNum: 1\n ...\n---
LinkedDescription(entries) ==
  Description(FALSE, "---\nfensak:\n  linked: [...]\n---\n", TRUE, FMValue("object", <<>>),
              FMArray(entries))

LinkedEntries ==
  {LinkedEntry(h, r, n) :
     h \in {TRUE}, r \in {"", OtherRepoName}, n \in {1, 2}}
  \cup {LinkedEntry(FALSE, "", n) : n \in {1, 2}}

LinkedLists ==
  {<<>>}
  \cup {<<l>> : l \in LinkedEntries}
  \cup {<<LinkedEntry(FALSE, "", 1), LinkedEntry(FALSE, "", 2)>>,
        <<LinkedEntry(FALSE, "", 2), LinkedEntry(TRUE, OtherRepoName, 1)>>,
        <<LinkedEntry(TRUE, OtherRepoName, 2), LinkedEntry(FALSE, "", 2),
          LinkedEntry(FALSE, "", 1)>>}

Descriptions ==
  {NoDescription, EmptyDescription, PlainDescription, NoFensakDescription,
   NullFensakDescription, NoLinkedDescription, NullLinkedDescription}
  \cup {LinkedDescription(ls) : ls \in LinkedLists}

FrontMatterError(forge) ==
  "[" \o forge \o "] PR " \o HostRepo.owner \o "/" \o HostRepo.name \o "#"
    \o ToString(HostPRNum) \o " has front matter, but it is not in the expected format"

\* !fm.attrs.fensak
FensakAbsent(d) == Falsy(d.fensak)

\* extractLinkedPRs up to Promise.all: "empty" (return []), "throw" (the
\* TypeError), or "lookups" (fensak.linked is mapped).
LinkedOutcome(d) ==
  IF d.isNull \/ d.text = "" \/ ~d.parsable THEN "empty"
  ELSE IF FensakAbsent(d) THEN "empty"
  ELSE IF Falsy(d.linked) THEN "throw"
  ELSE "lookups"

\* Mutant: the LinkedPR names the repository that was queried.
OutRepoQueried(l) == IF l.hasRepo /\ l.repo # "" THEN l.repo ELSE HostRepo.name

\* let outR = ""; if (l.repo) outR = l.repo
OutRepo(l) == IF l.hasRepo /\ l.repo # "" THEN l.repo ELSE ""

\* let r = repo; if (l.repo) r = l.repo
QueriedRepo(l) == IF l.hasRepo /\ l.repo # "" THEN l.repo ELSE HostRepo.name

LinkedPR(repo, prNum, isMerged, isClosed) ==
  [repo |-> repo, prNum |-> prNum, isMerged |-> isMerged, isClosed |-> isClosed]

\* What the forges answer for a pull request.
GitHubPullResponses == [merged : BOOLEAN, state : {"open", "closed"}]
BitBucketPullStates == {"OPEN", "MERGED", "DECLINED", "SUPERSEDED"}

\* from_github.ts: isMerged: pullReq.merged, isClosed: pullReq.state === "closed"
LinkedPRFromGitHub(l, pullReq) ==
  LinkedPR(OutRepo(l), l.prNum, pullReq.merged, pullReq.state = "closed")

\* from_bitbucket.ts: isMerged: state === "MERGED", isClosed: state !== "OPEN"
LinkedPRFromBitBucket(l, state) ==
  LinkedPR(OutRepo(l), l.prNum, state = "MERGED", state # "OPEN")

\* A lookup of Promise.all's array: pending, or resolved with a LinkedPR.
PendingLookup == [done |-> FALSE, value |-> LinkedPR("", 0, FALSE, FALSE)]
ResolvedLookup(v) == [done |-> TRUE, value |-> v]

\* Mutant: the results are collected as the lookups complete.
PromiseAllAsCompleted(lookups, completed) ==
  [i \in 1..Len(completed) |-> lookups[completed[i]].value]

\* Promise.all: the values in the order of the promises.
PromiseAll(lookups, completed) == [i \in 1..Len(lookups) |-> lookups[i].value]

\* A request to the forge.
Request(api, owner, repo, n, path, ref) ==
  [api |-> api, owner |-> owner, repo |-> repo, n |-> n, path |-> path, ref |-> ref]

\* The requests fensak.linked.map issues, one for each entry, in order.
LookupRequests(api, entries) ==
  [i \in 1..Len(entries) |-> Request(api, HostRepo.owner, QueriedRepo(entries[i]), entries[i].prNum, "", "")]

---------------------------------------------------------------------------
(* Part D, from_github.ts.                                                 *)

HeadRef == "feature"
BaseRef == "main"

\* An element of pulls.listFiles: previous_filename is "" when absent, patch is
\* given by its lines, none when absent.
PRFile(filename, previous_filename, status, additions, deletions, patch) ==
  [filename |-> filename, previous_filename |-> previous_filename, status |-> status,
   additions |-> additions, deletions |-> deletions, patch |-> patch]

\* The forge's pull request: its description and its files.
PullRequest(description, files) == [description |-> description, files |-> files]

GitHubStatuses ==
  {"added", "copied", "removed", "changed", "modified", "renamed", "unchanged"}
FilePatch == <<HunkHeader, ContextLine("x"), RemovedLine("x"), AddedLine("y")>>
GitHubFiles ==
  {PRFile(n, "", s, 3, 1, FilePatch) :
     n \in {"app.json", "app.toml", "vars.tfvars", "app.JSON", ".yml"}, s \in GitHubStatuses}
  \cup {PRFile(n, "old.json", "renamed", 3, 1, FilePatch) : n \in {"app.json", "vars.tfvars"}}
  \cup {PRFile("app.json5", "", "removed", 0, 2, <<>>)}
GitHubFileLists ==
  {<<f>> : f \in GitHubFiles}
  \cup {<<PRFile("app.json", "old.json", "renamed", 3, 1, FilePatch),
          PRFile("vars.tfvars", "", "modified", 3, 1, FilePatch)>>,
        <<PRFile("app.yaml", "", "added", 3, 0, FilePatch),
          PRFile("app.json", "", "unchanged", 0, 0, <<>>)>>,
        <<PRFile("vars.tfvars", "", "copied", 3, 0, FilePatch),
          PRFile("old.yml", "", "removed", 0, 1, FilePatch),
          PRFile("vars.tfvars", "", "renamed", 0, 0, <<>>)>>}
GitHubPullRequests ==
  {PullRequest(d, <<>>) : d \in Descriptions}
  \cup {PullRequest(NoDescription, fs) : fs \in GitHubFileLists}
  \cup {PullRequest(LinkedDescription(<<LinkedEntry(TRUE, OtherRepoName, 1)>>),
                    <<PRFile("app.json", "", "changed", 1, 1, FilePatch)>>)}

\* Mutant: a copied file counts as modified.
StatusOpCopiedModified(status) ==
  CASE status = "added" -> PatchOpInsert
    [] status = "copied" -> PatchOpModified
    [] status = "removed" -> PatchOpDelete
    [] status \in {"changed", "modified"} -> PatchOpModified
    [] OTHER -> PatchOpUnknown

\* getPatchesFromPRFile's switch (f.status), the cases that only set the op.
StatusOp(status) ==
  CASE status \in {"added", "copied"} -> PatchOpInsert
    [] status = "removed" -> PatchOpDelete
    [] status \in {"changed", "modified"} -> PatchOpModified
    [] OTHER -> PatchOpUnknown

UnknownStatusError(f) ==
  "[github] unknown status for file " \o f.filename \o " in PR " \o ToString(HostPRNum)
    \o " of repo " \o HostRepo.owner \o "/" \o HostRepo.name \o ": " \o f.status
NoPreviousFilenameError == "[github] previous filename not available for a rename"
NotAFileError(f) == "[github] " \o f.filename \o " is not a file"
ForgeError == "forge request failed"
ParseError == "parser threw"

\* The two patches of a rename.
RenamePatches(f) ==
  <<Patch(f.previous_filename, PatchOpDelete, 0, 0, <<>>, Null),
    Patch(f.filename, PatchOpInsert, 0, 0, <<>>, Null)>>

\* What getPRFileContent returned: the text of the file at path in ref.
Content(path, ref, text) == [path |-> path, ref |-> ref, text |-> text]

\* getPRFileContent's request: the base or the head of the pull request.
ContentRequest(f, refSrc) ==
  Request("repos.getContent", HostRepo.owner, HostRepo.name, 0, f.filename,
          IF refSrc = "head" THEN HeadRef ELSE BaseRef)

\* The state of a call of patchFromGitHubPullRequest.
GitHubIdle ==
  [stage |-> "idle", pr |-> PullRequest(NoDescription, <<>>), lookups |-> <<>>,
   completed |-> <<>>, linkedPRs |-> <<>>, next |-> 1, op |-> PatchOpUnknown,
   trees |-> <<>>, patchList |-> <<>>, requests |-> <<>>, contents |-> <<>>,
   outcome |-> "pending", error |-> "", out |-> Null]

Rejected(st, e) == [st EXCEPT !.stage = "done", !.outcome = "rejected", !.error = e]

\* Mutant: the parser's error is swallowed and the call returns what it has.
OnParserThrowsReturns(st) ==
  [st EXCEPT !.stage = "done", !.outcome = "resolved",
             !.out = Some([metadata |-> [sourceBranch |-> HeadRef, targetBranch |-> BaseRef,
                                         linkedPRs |-> st.linkedPRs],
                           patchList |-> st.patchList])]

\* parser(contents) throws inside getObjectDiff: nothing catches it up to the
\* adapter's promise.
OnParserThrows(st) == Rejected(st, ParseError)

\* extractLinkedPRs has returned: the iteration over the pages of files begins.
ListFiles(st, linkedPRs) ==
  [st EXCEPT !.linkedPRs = linkedPRs, !.stage = "listFiles",
             !.requests = Append(@, Request("pulls.listFiles", HostRepo.owner, HostRepo.name, HostPRNum, "", ""))]

\* patchFromGitHubPullRequest(clt, repo, prNum) up to its first await.
patchFromGitHubPullRequest(pr) ==
  /\ gh.stage = "idle"
  /\ gh' = [gh EXCEPT !.stage = "pulls.get", !.pr = pr,
                      !.requests = <<Request("pulls.get", HostRepo.owner, HostRepo.name, HostPRNum, "", "")>>]
  /\ UNCHANGED <<runRuleVars, bb, fn>>

\* A request the call awaits fails: the await throws, the call is rejected.
GitHubRequestFails ==
  /\ gh.stage \in {"pulls.get", "linked", "listFiles", "content"}
  /\ gh' = Rejected(gh, ForgeError)
  /\ UNCHANGED <<runRuleVars, bb, fn>>

\* pulls.get answers; extractLinkedPRs runs up to its await of Promise.all.
GitHubPullRequestArrives ==
  /\ gh.stage = "pulls.get"
  /\ LET d == gh.pr.description
         entries == d.linked.items
     IN  gh' = CASE LinkedOutcome(d) = "empty" -> ListFiles(gh, <<>>)
                 [] LinkedOutcome(d) = "throw" -> Rejected(gh, FrontMatterError("github"))
                 [] LinkedOutcome(d) = "lookups" ->
                      LET asked == [gh EXCEPT !.requests = @ \o LookupRequests("pulls.get", entries),
                                              !.lookups = [i \in 1..Len(entries) |-> PendingLookup],
                                              !.stage = "linked"]
                      IN  IF entries = <<>> THEN ListFiles(asked, <<>>) ELSE asked
  /\ UNCHANGED <<runRuleVars, bb, fn>>

\* One of the lookups of fensak.linked is answered; Promise.all resolves with the
\* last of them.
GitHubLookupCompletes(i) ==
  /\ gh.stage = "linked"
  /\ i \in 1..Len(gh.lookups)
  /\ ~gh.lookups[i].done
  /\ \E pullReq \in GitHubPullResponses :
       LET l == gh.pr.description.linked.items[i]
           after == [gh EXCEPT !.lookups[i] = ResolvedLookup(LinkedPRFromGitHub(l, pullReq)),
                               !.completed = Append(@, i)]
       IN  gh' = IF \A j \in 1..Len(after.lookups) : after.lookups[j].done
                 THEN ListFiles(after, PromiseAll(after.lookups, after.completed))
                 ELSE after
  /\ UNCHANGED <<runRuleVars, bb, fn>>

\* The pages of pulls.listFiles arrive.
GitHubFilesArrive ==
  /\ gh.stage = "listFiles"
  /\ gh' = [gh EXCEPT !.stage = "files", !.next = 1]
  /\ UNCHANGED <<runRuleVars, bb, fn>>

\* Mutant: the patches of a file are put before those of the files listed
\* before it.
PushPatchesFront(st, patches) ==
  [st EXCEPT !.patchList = patches \o @, !.stage = "files", !.next = @ + 1, !.trees = <<>>]

\* out.patchList.push(...patches), and the loop goes to the next file.
PushPatches(st, patches) ==
  [st EXCEPT !.patchList = @ \o patches, !.stage = "files", !.next = @ + 1, !.trees = <<>>]

\* The loop over the files: return out after the last file, else
\* getPatchesFromPRFile(clt, f, pullReq, repoName) up to its first await.
GitHubNextFile ==
  /\ gh.stage = "files"
  /\ gh' =
       IF gh.next > Len(gh.pr.files)
       THEN [gh EXCEPT !.stage = "done", !.outcome = "resolved",
                       !.out = Some([metadata |-> [sourceBranch |-> HeadRef,
                                                   targetBranch |-> BaseRef,
                                                   linkedPRs |-> gh.linkedPRs],
                                     patchList |-> gh.patchList])]
       ELSE LET f == gh.pr.files[gh.next]
                op == StatusOp(f.status)
            IN  IF f.status = "renamed"
                THEN IF f.previous_filename = ""
                     THEN Rejected(gh, NoPreviousFilenameError)
                     ELSE PushPatches(gh, RenamePatches(f))
                ELSE IF op = PatchOpUnknown
                THEN Rejected(gh, UnknownStatusError(f))
                ELSE IF objectParserFromFilename(f.filename) = "null"
                THEN PushPatches(gh, <<Patch(f.filename, op, f.additions, f.deletions,
                                             parseUnifiedDiff(f.patch), Null)>>)
                ELSE [gh EXCEPT !.stage = "content", !.op = op, !.trees = <<>>,
                                !.requests = Append(@, ContentRequest(f, RefsFetched(op)[1]))]
  /\ UNCHANGED <<runRuleVars, bb, fn>>

\* repos.getContent answers with something that is not a file.
GitHubContentIsNotAFile ==
  /\ gh.stage = "content"
  /\ gh' = Rejected(gh, NotAFileError(gh.pr.files[gh.next]))
  /\ UNCHANGED <<runRuleVars, bb, fn>>

\* repos.getContent answers with a file: getObjectDiff parses it, and fetches the
\* next content or returns.
GitHubContentArrives ==
  /\ gh.stage = "content"
  /\ LET f == gh.pr.files[gh.next]
         refs == RefsFetched(gh.op)
     IN  \E contents \in TextsOf(f.filename) :
           LET parsed == Parse(objectParserFromFilename(f.filename), contents)
               trees == Append(gh.trees, parsed.tree)
               got == [gh EXCEPT !.contents =
                         Append(@, Content(f.filename, gh.requests[Len(gh.requests)].ref, contents))]
           IN  gh' = IF ~parsed.ok THEN OnParserThrows(got)
                     ELSE IF Len(trees) < Len(refs)
                     THEN [got EXCEPT !.trees = trees,
                                      !.requests = Append(@, ContentRequest(f, refs[Len(trees) + 1]))]
                     ELSE PushPatches(got, <<Patch(f.filename, gh.op, f.additions, f.deletions,
                                                  parseUnifiedDiff(f.patch),
                                                  Some(ObjectDiffOf(gh.op, trees)))>>)
  /\ UNCHANGED <<runRuleVars, bb, fn>>

NextGitHub ==
  \/ \E pr \in GitHubPullRequests : patchFromGitHubPullRequest(pr)
  \/ GitHubRequestFails
  \/ GitHubPullRequestArrives
  \/ \E i \in 1..MaxLinked : GitHubLookupCompletes(i)
  \/ GitHubFilesArrive
  \/ GitHubNextFile
  \/ GitHubContentIsNotAFile
  \/ GitHubContentArrives

---------------------------------------------------------------------------
(* Part E, from_bitbucket.ts.                                              *)

PrevHash == "1f0e"
CurHash == "9a7c"

\* The chunk of one file in the combined diff: the paths of its --- and +++
\* lines ("" for /dev/null) and the lines of its hunks.
Chunk(oldPath, newPath, body) ==
  [oldPath |-> oldPath, newPath |-> newPath, body |-> body, fileHeader |-> TRUE]

\* A chunk git writes without --- and +++ lines and without hunks: a file
\* renamed with its content unchanged, or a file whose mode changed.
PureRename(oldPath, newPath) ==
  [oldPath |-> oldPath, newPath |-> newPath, fileHeader |-> FALSE,
   body |-> <<"similarity index 100%", "rename from " \o oldPath, "rename to " \o newPath>>]
ModeChange(path) ==
  [oldPath |-> path, newPath |-> path, fileHeader |-> FALSE,
   body |-> <<"old mode 100644", "new mode 100755">>]

\* The text of a chunk, as git writes it.
ChunkLines(c) ==
  <<"diff --git a/" \o (IF c.oldPath = "" THEN c.newPath ELSE c.oldPath)
      \o " b/" \o (IF c.newPath = "" THEN c.oldPath ELSE c.newPath)>>
  \o (IF c.fileHeader
      THEN <<"index 42acf9e..a690b11 100644",
             IF c.oldPath = "" THEN "--- /dev/null" ELSE "--- a/" \o c.oldPath,
             IF c.newPath = "" THEN "+++ /dev/null" ELSE "+++ b/" \o c.newPath>>
      ELSE <<>>)
  \o c.body

RECURSIVE DiffText(_)
DiffText(chunks) ==
  IF chunks = <<>> THEN <<>> ELSE ChunkLines(Head(chunks)) \o DiffText(Tail(chunks))

\* The bodies of the chunks: of an added file, lines added; of a deleted file,
\* lines removed; of a modified or renamed file, both.  A line's content may
\* begin with "-- a/" or "++ b/".
AddedBodies ==
  {HunkText(0, 2, <<AddedLine("x"), AddedLine("y")>>),
   HunkText(0, 2, <<AddedLine("x"), AddedLine("++ b/old.json")>>)}
DeletedBodies ==
  {HunkText(2, 0, <<RemovedLine("x"), RemovedLine("y")>>),
   HunkText(2, 0, <<RemovedLine("x"), RemovedLine("-- a/old.json")>>)}
ModifiedBodies ==
  {HunkText(2, 2, <<ContextLine("x"), RemovedLine("x"), AddedLine("y")>>),
   HunkText(1, 1, <<RemovedLine("-- a/old.json"), AddedLine("y")>>),
   HunkText(1, 1, <<RemovedLine("-- a/app.json"), AddedLine("-- a/vars.tfvars")>>),
   HunkText(1, 1, <<RemovedLine("x"), AddedLine("++ b/old.json")>>)}

BitBucketPaths == {"app.json", "old.json", "vars.tfvars", "app.toml"}
BitBucketChunks ==
  {Chunk("", p, b) : p \in {"app.json", "vars.tfvars"}, b \in AddedBodies}
  \cup {Chunk(p, "", b) : p \in {"app.json", "vars.tfvars", "app.toml"}, b \in DeletedBodies}
  \cup {Chunk(p, p, b) : p \in {"app.json", "vars.tfvars"}, b \in ModifiedBodies}
  \cup {Chunk(o, n, b) :
          o \in {"old.json", "vars.tfvars"}, n \in {"app.json", "app.toml"}, b \in ModifiedBodies}
BitBucketChunkLists ==
  {<<c>> : c \in BitBucketChunks}
  \cup {<<Chunk("old.json", "app.json", HunkText(1, 1, <<RemovedLine("x"), AddedLine("y")>>)),
          Chunk("", "vars.tfvars", HunkText(0, 1, <<AddedLine("x")>>))>>,
        <<Chunk("app.toml", "", HunkText(1, 0, <<RemovedLine("x")>>)),
          Chunk("app.json", "app.json", HunkText(1, 1, <<RemovedLine("x"), AddedLine("y")>>)),
          Chunk("vars.tfvars", "vars.tfvars",
                HunkText(1, 2, <<ContextLine("x"), AddedLine("y")>>))>>,
        <<PureRename("old.json", "app.json")>>,
        <<ModeChange("vars.tfvars")>>,
        <<Chunk("", "app.toml", HunkText(0, 1, <<AddedLine("x")>>)),
          ModeChange("app.json"),
          Chunk("old.json", "vars.tfvars", HunkText(1, 1, <<RemovedLine("x"), AddedLine("y")>>))>>}

\* Text before the first chunk, as a mailed patch has it.
LeadingText == <<"From 42acf9e Mon Sep 17 00:00:00 2001", "--- a/old.json">>

\* The forge's pull request: its description and the text of its diff, by lines;
\* chunks is what the text was written from.
BitBucketPullRequest(description, chunks) ==
  [description |-> description, chunks |-> chunks, diffTxt |-> DiffText(chunks)]
BitBucketPullRequests ==
  {BitBucketPullRequest(d, <<>>) : d \in Descriptions}
  \cup {BitBucketPullRequest(NoDescription, cs) : cs \in BitBucketChunkLists}
  \cup {[BitBucketPullRequest(NoDescription, cs) EXCEPT !.diffTxt = LeadingText \o @] :
          cs \in {ds \in BitBucketChunkLists : Len(ds) > 1} \cup {<<>>}}

\* diffStartLineRE = /^diff --git a\/.+ b\/.+$/
diffStartLineRE(line) ==
  \E a \in BitBucketPaths, b \in BitBucketPaths : line = "diff --git a/" \o a \o " b/" \o b

\* ofnameRE = /^--- ((a\/(.+))|(\/dev\/null))$/ and
\* tfnameRE = /^\+\+\+ ((b\/(.+))|(\/dev\/null))$/: the paths m[3] of a match whose
\* m[1] is not /dev/null, none when there is none.
ofnameRE(line) == {p \in BitBucketPaths : line = "--- a/" \o p}
tfnameRE(line) == {p \in BitBucketPaths : line = "+++ b/" \o p}

IBBFileDiff(unifiedTxt, oFname, tFname) ==
  [unifiedTxt |-> unifiedTxt, oFname |-> oFname, tFname |-> tFname]

\* parseBitBucketDiff's loop body for a line that is not a start line.
Harvest(fdiff, line) ==
  LET txt == [fdiff EXCEPT !.unifiedTxt = Append(@, line)]
  IN  IF ofnameRE(line) # {} THEN [txt EXCEPT !.oFname = CHOOSE p \in ofnameRE(line) : TRUE]
      ELSE IF tfnameRE(line) # {} THEN [txt EXCEPT !.tFname = CHOOSE p \in tfnameRE(line) : TRUE]
      ELSE txt

\* parseBitBucketDiff's loop over diffTxt.split("\n"): the file diffs handed to
\* parseBitBucketFileDiff, in order; fdiff is null or the file diff being read.
RECURSIVE ScanFrom(_, _, _, _)
ScanFrom(lines, i, out, fdiff) ==
  IF i > Len(lines) THEN out \o fdiff
  ELSE IF diffStartLineRE(lines[i])
  THEN ScanFrom(lines, i + 1, out \o fdiff, Some(IBBFileDiff(<<lines[i]>>, "", "")))
  ELSE IF fdiff # Null
  THEN ScanFrom(lines, i + 1, out, Some(Harvest(fdiff[1], lines[i])))
  ELSE ScanFrom(lines, i + 1, out, fdiff)

isRename(fdiff) == fdiff.oFname # "" /\ fdiff.tFname # "" /\ fdiff.oFname # fdiff.tFname
isAdd(fdiff) == fdiff.oFname = "" /\ fdiff.tFname # ""
isDelete(fdiff) == fdiff.oFname # "" /\ fdiff.tFname = ""

\* The op parseBitBucketFileDiff hands to getObjectDiff.
FileDiffOp(fdiff) ==
  IF isRename(fdiff) THEN PatchOpModified
  ELSE IF isAdd(fdiff) THEN PatchOpInsert
  ELSE IF isDelete(fdiff) THEN PatchOpDelete
  ELSE PatchOpModified

\* What parseBitBucketFileDiff returns.
FileDiffPatches(fdiff, objectDiff) ==
  IF isRename(fdiff)
  THEN <<Patch(fdiff.oFname, PatchOpDelete, 0, 0, <<>>, Null),
         Patch(fdiff.tFname, PatchOpInsert, 0, 0, <<>>, Null),
         Patch(fdiff.tFname, PatchOpModified, 0, 0, parseUnifiedDiff(fdiff.unifiedTxt),
               objectDiff)>>
  ELSE <<Patch(IF isAdd(fdiff) THEN fdiff.tFname ELSE fdiff.oFname, FileDiffOp(fdiff), 0, 0,
               parseUnifiedDiff(fdiff.unifiedTxt), objectDiff)>>

\* getObjectDiff's parser: objectParserFromFilename(curFpath).
ObjectDiffParser(fdiff) == objectParserFromFilename(fdiff.tFname)

\* getObjectDiff's request of a file's text: prevFpath at prevHash, curFpath at
\* curHash.
SrcRequest(fdiff, refSrc) ==
  IF refSrc = "head"
  THEN Request("src", HostRepo.owner, HostRepo.name, 0, fdiff.tFname, CurHash)
  ELSE Request("src", HostRepo.owner, HostRepo.name, 0, fdiff.oFname, PrevHash)

\* The state of a call of patchFromBitBucketPullRequest.
BitBucketIdle ==
  [stage |-> "idle", pr |-> BitBucketPullRequest(NoDescription, <<>>), lookups |-> <<>>,
   completed |-> <<>>, linkedPRs |-> <<>>, fdiffs |-> <<>>, next |-> 1, trees |-> <<>>,
   patchList |-> <<>>, requests |-> <<>>, contents |-> <<>>, outcome |-> "pending",
   error |-> "", out |-> Null]

\* extractLinkedPRs has returned: the diff is asked for.
GetDiff(st, linkedPRs) ==
  [st EXCEPT !.linkedPRs = linkedPRs, !.stage = "diff",
             !.requests = Append(@, Request("diff", HostRepo.owner, HostRepo.name, HostPRNum, "", ""))]

\* patchFromBitBucketPullRequest(clt, repo, prNum) up to its first await.
patchFromBitBucketPullRequest(pr) ==
  /\ bb.stage = "idle"
  /\ bb' = [bb EXCEPT !.stage = "pullrequests", !.pr = pr,
                      !.requests = <<Request("pullrequests", HostRepo.owner, HostRepo.name,
                                             HostPRNum, "", "")>>]
  /\ UNCHANGED <<runRuleVars, gh, fn>>

\* apiCall and directAPICall throw when the response is not ok.
BitBucketRequestFails ==
  /\ bb.stage \in {"pullrequests", "linked", "diff", "content"}
  /\ bb' = Rejected(bb, ForgeError)
  /\ UNCHANGED <<runRuleVars, gh, fn>>

\* The pull request arrives; extractLinkedPRs runs up to its await of
\* Promise.all.
BitBucketPullRequestArrives ==
  /\ bb.stage = "pullrequests"
  /\ LET d == bb.pr.description
         entries == d.linked.items
     IN  bb' = CASE LinkedOutcome(d) = "empty" -> GetDiff(bb, <<>>)
                 [] LinkedOutcome(d) = "throw" -> Rejected(bb, FrontMatterError("bitbucket"))
                 [] LinkedOutcome(d) = "lookups" ->
                      LET asked == [bb EXCEPT !.requests = @ \o LookupRequests("pullrequests", entries),
                                              !.lookups = [i \in 1..Len(entries) |-> PendingLookup],
                                              !.stage = "linked"]
                      IN  IF entries = <<>> THEN GetDiff(asked, <<>>) ELSE asked
  /\ UNCHANGED <<runRuleVars, gh, fn>>

\* One of the lookups of fensak.linked is answered.
BitBucketLookupCompletes(i) ==
  /\ bb.stage = "linked"
  /\ i \in 1..Len(bb.lookups)
  /\ ~bb.lookups[i].done
  /\ \E state \in BitBucketPullStates :
       LET l == bb.pr.description.linked.items[i]
           after == [bb EXCEPT !.lookups[i] = ResolvedLookup(LinkedPRFromBitBucket(l, state)),
                               !.completed = Append(@, i)]
       IN  bb' = IF \A j \in 1..Len(after.lookups) : after.lookups[j].done
                 THEN GetDiff(after, PromiseAll(after.lookups, after.completed))
                 ELSE after
  /\ UNCHANGED <<runRuleVars, gh, fn>>

\* The text of the diff arrives; parseBitBucketDiff reads its lines.
BitBucketDiffArrives ==
  /\ bb.stage = "diff"
  /\ bb' = [bb EXCEPT !.stage = "chunks", !.next = 1,
                      !.fdiffs = ScanFrom(bb.pr.diffTxt, 1, <<>>, Null)]
  /\ UNCHANGED <<runRuleVars, gh, fn>>

\* parseBitBucketFileDiff up to getObjectDiff's first await, or to its return;
\* after the last file diff, patchFromBitBucketPullRequest returns out.
BitBucketNextFileDiff ==
  /\ bb.stage = "chunks"
  /\ bb' =
       IF bb.next > Len(bb.fdiffs)
       THEN [bb EXCEPT !.stage = "done", !.outcome = "resolved",
                       !.out = Some([metadata |-> [sourceBranch |-> HeadRef,
                                                   targetBranch |-> BaseRef,
                                                   linkedPRs |-> bb.linkedPRs],
                                     patchList |-> bb.patchList])]
       ELSE LET fdiff == bb.fdiffs[bb.next]
            IN  IF ObjectDiffParser(fdiff) = "null"
                THEN [bb EXCEPT !.patchList = @ \o FileDiffPatches(fdiff, Null), !.next = @ + 1]
                ELSE [bb EXCEPT !.stage = "content", !.trees = <<>>,
                                !.requests =
                                  Append(@, SrcRequest(fdiff, RefsFetched(FileDiffOp(fdiff))[1]))]
  /\ UNCHANGED <<runRuleVars, gh, fn>>

\* The text of a file arrives: getObjectDiff parses it, and fetches the next or
\* returns.
BitBucketContentArrives ==
  /\ bb.stage = "content"
  /\ LET fdiff == bb.fdiffs[bb.next]
         refs == RefsFetched(FileDiffOp(fdiff))
         asked == bb.requests[Len(bb.requests)]
     IN  \E contents \in TextsOf(fdiff.tFname) :
           LET parsed == Parse(ObjectDiffParser(fdiff), contents)
               trees == Append(bb.trees, parsed.tree)
               got == [bb EXCEPT !.contents = Append(@, Content(asked.path, asked.ref, contents))]
           IN  bb' = IF ~parsed.ok THEN OnParserThrows(got)
                     ELSE IF Len(trees) < Len(refs)
                     THEN [got EXCEPT !.trees = trees,
                                      !.requests = Append(@, SrcRequest(fdiff, refs[Len(trees) + 1]))]
                     ELSE [got EXCEPT !.patchList =
                                        @ \o FileDiffPatches(fdiff,
                                                             Some(ObjectDiffOf(FileDiffOp(fdiff), trees))),
                                      !.stage = "chunks", !.next = @ + 1, !.trees = <<>>]
  /\ UNCHANGED <<runRuleVars, gh, fn>>

NextBitBucket ==
  \/ \E pr \in BitBucketPullRequests : patchFromBitBucketPullRequest(pr)
  \/ BitBucketRequestFails
  \/ BitBucketPullRequestArrives
  \/ \E i \in 1..MaxLinked : BitBucketLookupCompletes(i)
  \/ BitBucketDiffArrives
  \/ BitBucketNextFileDiff
  \/ BitBucketContentArrives

---------------------------------------------------------------------------
(* The unified-diff parser applied to a diff text *)

\* A line of a hunk's body as a diff writes it: a line of the file that is kept,
\* removed or added, the marker of a missing final newline, or an empty line
\* (a kept empty line whose one space was stripped).
BodyLineKinds == {"context", "removed", "added", "nonewline", "empty"}
BodyLine(kind, content) == [kind |-> kind, content |-> content]
BodyLines ==
  {BodyLine("context", "x"), BodyLine("removed", "x"), BodyLine("added", "y"),
   BodyLine("removed", "-- a/app.json"), BodyLine("added", "++ b/app.json"),
   BodyLine("nonewline", ""), BodyLine("empty", "")}
RenderLine(l) ==
  CASE l.kind = "context" -> ContextLine(l.content)
    [] l.kind = "removed" -> RemovedLine(l.content)
    [] l.kind = "added" -> AddedLine(l.content)
    [] l.kind = "nonewline" -> NoNewline
    [] l.kind = "empty" -> ""

RECURSIVE SeqsUpTo(_, _)
SeqsUpTo(S, n) ==
  IF n = 0 THEN {<<>>}
  ELSE LET shorter == SeqsUpTo(S, n - 1)
       IN  shorter \cup {Append(q, x) : q \in shorter, x \in S}
Bodies == SeqsUpTo(BodyLines, MaxHunkLines) \ {<<>>}

\* The lines of the original and of the updated file a body covers.
CountKinds(body, kinds) == Cardinality({i \in 1..Len(body) : body[i].kind \in kinds})
OriginalLines(body) == CountKinds(body, {"context", "removed", "empty"})
UpdatedLines(body) == CountKinds(body, {"context", "added", "empty"})

\* A diff text of one hunk: with or without the file header before the hunk, and
\* with a header that counts the lines of the body or with a header that was not
\* brought up to date with the body.
DiffInput(fileHeader, counted, body) ==
  [fileHeader |-> fileHeader, counted |-> counted, body |-> body]
DiffInputs == {DiffInput(f, c, b) : f \in BOOLEAN, c \in BOOLEAN, b \in Bodies}
DiffInputLines(in) ==
  (IF in.fileHeader THEN <<"--- a/app.json", "+++ b/app.json">> ELSE <<>>)
    \o <<IF in.counted THEN HunkHeaderText(OriginalLines(in.body), UpdatedLines(in.body))
         ELSE HunkHeader>>
    \o [i \in 1..Len(in.body) |-> RenderLine(in.body[i])]

\* parseUnifiedDiff is applied to the text.
ParseUnifiedDiffReturns ==
  /\ fn.name = "parseUnifiedDiff"
  /\ fn.ret = Null
  /\ fn' = [fn EXCEPT !.ret = Some(parseUnifiedDiff(DiffInputLines(fn.arg[1])))]
  /\ UNCHANGED <<runRuleVars, gh, bb>>

---------------------------------------------------------------------------
(* microdiff applied to two parsed trees *)

\* The values of a file's tree: scalars, the containers of scalars that are the
\* values of a map's keys, and the trees themselves.
ScalarValues == {Scalar("v1"), Scalar("v2")}
\* A file whose whole content is a number: a scalar, which has no key.
NumberTrees == {Scalar("1"), Scalar("2")}
RECURSIVE SeqsOfLength(_, _)
SeqsOfLength(S, n) ==
  IF n = 0 THEN {<<>>} ELSE {Append(q, x) : q \in SeqsOfLength(S, n - 1), x \in S}
InnerValues ==
  ScalarValues
    \cup {MapOf(<<>>), MapOf(<<Member("a", Scalar("v1"))>>)}
    \cup {SeqOf(q) : q \in UNION {SeqsOfLength({Scalar("v1")}, n) : n \in 0..MaxItems}}
ItemValues == ScalarValues \cup {MapOf(<<Member("a", Scalar("v1"))>>)}
MapTrees ==
  {MapOf(<<>>)}
    \cup {MapOf(<<Member(k, v)>>) : k \in {"a", "b"}, v \in InnerValues}
    \cup {MapOf(<<Member("a", v), Member("b", w)>>) : v \in InnerValues, w \in InnerValues}
    \cup {MapOf(<<Member("0", Scalar("v1"))>>)}
SeqTrees == {SeqOf(q) : q \in UNION {SeqsOfLength(ItemValues, n) : n \in 0..MaxItems}}
ObjectTrees == NumberTrees \cup MapTrees \cup SeqTrees

\* diff(prev, cur) is applied to the two trees.
DiffReturns ==
  /\ fn.name = "diff"
  /\ fn.ret = Null
  /\ fn' = [fn EXCEPT !.ret = Some(diff(fn.arg[1].previous, fn.arg[1].current))]
  /\ UNCHANGED <<runRuleVars, gh, bb>>

---------------------------------------------------------------------------
(* Actions *)

\* The state in which no function has been applied.
FnIdle == [name |-> "", arg |-> Null, ret |-> Null]

InitRunRule(n) ==
  /\ thread = 0
  /\ now = 0
  /\ budget = n
  /\ hostConsole = <<>>
  /\ call = [r \in Runs |-> NoCall]
  /\ invoked = [r \in Runs |-> NoCall]
  /\ phase = [r \in Runs |-> "NotCalled"]
  /\ logMode = [r \in Runs |-> "drop"]
  /\ result = [r \in Runs |-> NewResult]
  /\ interp = [r \in Runs |-> NewInterpreter]
  /\ rejected = [r \in Runs |-> FALSE]
  /\ sleeping = [r \in Runs |-> FALSE]
  /\ sleepAt = [r \in Runs |-> -1]
  /\ toutAt = [r \in Runs |-> -1]
  /\ iterations = [r \in Runs |-> 0]
  /\ settles = [r \in Runs |-> <<>>]
  /\ gh = GitHubIdle
  /\ bb = BitBucketIdle

InitWith(n) == InitRunRule(n) /\ fn = FnIdle

\* runRule(ruleFn, patchList, changeSetMetadata, opts) up to the construction of
\* the interpreter.
RunRule(r, c) ==
  /\ thread = 0
  /\ budget > 0
  /\ phase[r] = "NotCalled"
  /\ \A q \in Runs : q < r => phase[q] # "NotCalled"
  /\ budget' = budget - 1
  /\ thread' = r
  /\ call' = [call EXCEPT ![r] = c]
  /\ invoked' = [invoked EXCEPT ![r] = c]
  /\ logMode' = [logMode EXCEPT ![r] = LogModeOf(c.opts)]
  /\ result' = [result EXCEPT ![ResultCell(r)] = NewResult]
  /\ interp' = [interp EXCEPT ![r] = NewInterpreter]
  /\ phase' = [phase EXCEPT ![r] = "Constructed"]
  /\ UNCHANGED <<now, hostConsole, rejected, sleeping, sleepAt, toutAt, iterations, settles,
                 gh, bb, fn>>

\* The promise's executor up to the step loop: rejected = false, sleeping = null,
\* tout = setTimeout(..., maxUDRRuntime), iterations = 0.
StartLoop(r) ==
  /\ thread = r
  /\ phase[r] = "Constructed"
  /\ rejected' = [rejected EXCEPT ![r] = FALSE]
  /\ sleeping' = [sleeping EXCEPT ![r] = FALSE]
  /\ toutAt' = [toutAt EXCEPT ![r] = now + maxUDRRuntime]
  /\ iterations' = [iterations EXCEPT ![r] = 0]
  /\ phase' = [phase EXCEPT ![r] = "Running"]
  /\ UNCHANGED <<gh, bb, fn, thread, now, budget, hostConsole, call, invoked, logMode, result, interp,
                 sleepAt, settles>>

StepOf(r) ==
  InterpreterStep(call[r], logMode[r], interp[r], result[ResultCell(r)], hostConsole)

\* Mutant: the async function returns and leaves the timeout timer pending.
FinallyLeavesTimeout(r) ==
  /\ toutAt' = toutAt
  /\ phase' = [phase EXCEPT ![r] = "Returned"]
  /\ thread' = 0

\* finally { clearTimeout(tout) }, and the async function has returned.
Finally(r) ==
  /\ toutAt' = [toutAt EXCEPT ![r] = -1]
  /\ phase' = [phase EXCEPT ![r] = "Returned"]
  /\ thread' = 0

\* while (interpreter.step()): step() threw; catch (e) { reject(e) }
LoopStepThrows(r) ==
  /\ thread = r
  /\ phase[r] = "Running"
  /\ StepOf(r).ret = "throw"
  /\ interp' = [interp EXCEPT ![r] = StepOf(r).interp]
  /\ result' = [result EXCEPT ![ResultCell(r)] = StepOf(r).result]
  /\ hostConsole' = StepOf(r).hostConsole
  /\ settles' = [settles EXCEPT ![r] = OnThrow(r, StepOf(r).err)]
  /\ Finally(r)
  /\ UNCHANGED <<gh, bb, fn, now, budget, call, invoked, logMode, rejected, sleeping, sleepAt, iterations>>

\* while (interpreter.step()): step() returned false; resolve(result)
LoopStepEnds(r) ==
  /\ thread = r
  /\ phase[r] = "Running"
  /\ StepOf(r).ret = "false"
  /\ settles' = [settles EXCEPT ![r] = OnEnd(r)]
  /\ Finally(r)
  /\ UNCHANGED <<gh, bb, fn, now, budget, hostConsole, call, invoked, logMode, result, interp, rejected,
                 sleeping, sleepAt, iterations>>

\* Mutant: the loop sleeps as soon as iterations reaches the maximum.
MustSleepAtMax(n) == n >= maxStepIterationsBeforeSleep

\* if (iterations > maxStepIterationsBeforeSleep)
MustSleep(n) == n > maxStepIterationsBeforeSleep

\* while (interpreter.step()): step() returned true; the body of the loop, up to
\* the next call of step() or to the await of the sleep.
LoopStepContinues(r) ==
  /\ thread = r
  /\ phase[r] = "Running"
  /\ StepOf(r).ret = "true"
  /\ interp' = [interp EXCEPT ![r] = StepOf(r).interp]
  /\ result' = [result EXCEPT ![ResultCell(r)] = StepOf(r).result]
  /\ hostConsole' = StepOf(r).hostConsole
  /\ IF rejected[r]
     THEN /\ Finally(r)
          /\ UNCHANGED <<iterations, sleeping, sleepAt>>
     ELSE /\ iterations' = [iterations EXCEPT ![r] = @ + 1]
          /\ IF MustSleep(iterations[r] + 1)
             THEN /\ sleeping' = [sleeping EXCEPT ![r] = TRUE]
                  /\ sleepAt' = [sleepAt EXCEPT ![r] = now + sleepBetweenStepIterations]
                  /\ phase' = [phase EXCEPT ![r] = "Sleeping"]
                  /\ thread' = 0
             ELSE UNCHANGED <<sleeping, sleepAt, phase, thread>>
          /\ UNCHANGED toutAt
  /\ UNCHANGED <<gh, bb, fn, now, budget, call, invoked, logMode, rejected, settles>>

\* The sleep timer fires: the awaited promise resolves and the async function
\* goes on at once (a microtask): iterations = 0, then the loop's next step().
SleepFires(r) ==
  /\ MayFire(sleepAt[r])
  /\ sleepAt' = [sleepAt EXCEPT ![r] = -1]
  /\ iterations' = [iterations EXCEPT ![r] = 0]
  /\ phase' = [phase EXCEPT ![r] = "Running"]
  /\ thread' = r
  /\ UNCHANGED <<gh, bb, fn, now, budget, hostConsole, call, invoked, logMode, result, interp, rejected,
                 sleeping, toutAt, settles>>

\* Mutant: the timeout's callback leaves the pending sleep alone.
ClearSleepMissing(r) == sleepAt

\* if (sleeping) clearTimeout(sleeping)
ClearSleep(r) == [sleepAt EXCEPT ![r] = IF sleeping[r] THEN -1 ELSE @]

\* The timeout timer fires: if (sleeping) clearTimeout(sleeping); rejected = true;
\* reject(new Error("user defined rule timed out")).  A cleared sleep never
\* resolves its promise: the async function stays at its await.
TimeoutFires(r) ==
  /\ MayFire(toutAt[r])
  /\ toutAt' = [toutAt EXCEPT ![r] = -1]
  /\ sleepAt' = ClearSleep(r)
  /\ rejected' = [rejected EXCEPT ![r] = TRUE]
  /\ settles' = [settles EXCEPT ![r] = OnTimeout(r)]
  /\ UNCHANGED <<gh, bb, fn, thread, now, budget, hostConsole, call, invoked, phase, logMode, result, interp,
                 sleeping, iterations>>

\* Time passes, while the thread is idle or while a batch of steps executes: the
\* clock reaches the next expiry of a pending timer.
AdvanceClock ==
  /\ IF thread = 0 THEN TRUE ELSE iterations[thread] = 0
  /\ \E e \in PendingExpiries : e > now
  /\ now' = CHOOSE e \in PendingExpiries : e > now /\ \A f \in PendingExpiries : f > now => f >= e
  /\ UNCHANGED <<gh, bb, fn, thread, budget, hostConsole, call, invoked, phase, logMode, result, interp,
                 rejected, sleeping, sleepAt, toutAt, iterations, settles>>

Loop(r) ==
  \/ StartLoop(r)
  \/ LoopStepThrows(r)
  \/ LoopStepEnds(r)
  \/ LoopStepContinues(r)
  \/ SleepFires(r)
  \/ TimeoutFires(r)

\* The caller's next call of runRule, with arguments among cs.
CallerCalls(cs) ==
  /\ thread = 0
  /\ budget > 0
  /\ \E r \in Runs : phase[r] = "NotCalled" /\ \E c \in cs : RunRule(r, c)

Next ==
  \/ CallerCalls(Calls)
  \/ \E r \in Runs : Loop(r)
  \/ AdvanceClock

\* One invocation.
Init == InitWith(1)

Spec == Init /\ [][Next]_vars

\* The thread executes the synchronous code of invocation r.
Executes(r) ==
  StartLoop(r) \/ LoopStepThrows(r) \/ LoopStepEnds(r) \/ LoopStepContinues(r)

\* Rules that never end, and one that does.
LiveCalls ==
  {Call(p, <<>>, nullMeta, "capture") : p \in LoopPrograms}
  \cup {Call(Prog(<<Busy(maxStepIterationsBeforeSleep)>>, <<Console("log", <<Hello>>)>>, "sanity"),
               <<PatchA>>, nullMeta, "capture"),
         Call(Prog(<<>>, <<Throw("boom")>>, "true"), <<>>, nullMeta, "noOpts")}

NextLive ==
  \/ CallerCalls(LiveCalls)
  \/ \E r \in Runs : Loop(r)
  \/ AdvanceClock

\* One invocation, on a host whose thread runs, whose clock advances and whose
\* timers fire.
FairSpec ==
  /\ Init
  /\ [][NextLive]_vars
  /\ WF_vars(AdvanceClock)
  /\ \A r \in Runs :
       WF_vars(Executes(r)) /\ WF_vars(SleepFires(r)) /\ WF_vars(TimeoutFires(r))

---------------------------------------------------------------------------
(* Rules at the edge of the time the harness gives them.                   *)

\* The micro-steps the batches before the timeout hold.
StepBudget ==
  (maxUDRRuntime \div sleepBetweenStepIterations + 1) * (maxStepIterationsBeforeSleep + 1)

\* The calls of step() a rule without while (true) needs: one for each statement,
\* up to the statement that throws, or else one more, which returns false.
OpSteps(op) == IF op.k = "busy" /\ op.n > 1 THEN op.n ELSE 1
RECURSIVE StepsFrom(_, _)
StepsFrom(code, i) ==
  IF i > Len(code) THEN 1
  ELSE IF code[i].k = "throw" THEN 1
  ELSE OpSteps(code[i]) + StepsFrom(code, i + 1)
MicroSteps(ruleFn) == StepsFrom(Code(ruleFn), 1)

BudgetTargets ==
  ((maxStepIterationsBeforeSleep + 1 - BudgetSpread) ..
     (maxStepIterationsBeforeSleep + 1 + BudgetSpread))
  \cup {StepBudget, StepBudget + 1}
BudgetCalls ==
  {Call(Prog(<<>>, <<Busy(t - 5)>>, "true"), <<PatchA>>, nullMeta, "capture") :
     t \in BudgetTargets}
  \cup {Call(Prog(<<>>, <<Busy(maxStepIterationsBeforeSleep + 1), Throw("boom")>>, "true"),
              <<>>, nullMeta, "noOpts")}

NextBudget ==
  \/ CallerCalls(BudgetCalls)
  \/ \E r \in Runs : Loop(r)
  \/ AdvanceClock

SpecBudget ==
  /\ Init
  /\ [][NextBudget]_vars
  /\ WF_vars(AdvanceClock)
  /\ \A r \in Runs :
       WF_vars(Executes(r)) /\ WF_vars(SleepFires(r)) /\ WF_vars(TimeoutFires(r))

---------------------------------------------------------------------------
(* Invocations in flight together.                                         *)

PairCalls ==
  {Call(Prog(<<>>, <<Console("info", <<Hello>>), Busy(maxStepIterationsBeforeSleep),
                     Console("warn", <<World>>)>>, "sanity"),
        <<PatchA>>, nullMeta, "capture"),
   Call(Prog(<<Busy(maxStepIterationsBeforeSleep)>>,
             <<Console("log", <<World>>), SetOutput("\"yes\"")>>, "false"),
        <<>>, nullMeta, "capture"),
   Call(Prog(<<>>, <<Console("debug", <<Hello>>), Busy(maxStepIterationsBeforeSleep + 1),
                     Ref("fetch")>>, "true"),
        <<>>, nullMeta, "capture")}

NextPair ==
  \/ CallerCalls(PairCalls)
  \/ \E r \in Runs : Loop(r)
  \/ AdvanceClock

InitPair == InitWith(MaxRuns)

SpecPair == InitPair /\ [][NextPair]_vars

---------------------------------------------------------------------------
(* The caller's objects.  runRule keeps the references it was given: the   *)
(* getInput native closes over patchList and changeSetMetadata and         *)
(* serializes them when the guest calls it.  Another task of the host runs *)
(* while the invocation is suspended at its sleep.                         *)

\* patchList.push(patch) by the holder of the array.
CallerPushes(r) ==
  /\ thread = 0
  /\ phase[r] = "Sleeping"
  /\ settles[r] = <<>>
  /\ Len(call[r].patchList) < MaxPatches
  /\ call' = [call EXCEPT ![r].patchList = Append(@, PatchB)]
  /\ UNCHANGED <<gh, bb, fn, thread, now, budget, hostConsole, invoked, phase, logMode, result, interp,
                 rejected, sleeping, sleepAt, toutAt, iterations, settles>>

\* changeSetMetadata.sourceBranch = "other" by the holder of the object.
CallerRetargets(r) ==
  /\ thread = 0
  /\ phase[r] = "Sleeping"
  /\ settles[r] = <<>>
  /\ call[r].metadata.sourceBranch # VStr("other")
  /\ call' = [call EXCEPT ![r].metadata.sourceBranch = VStr("other")]
  /\ UNCHANGED <<gh, bb, fn, thread, now, budget, hostConsole, invoked, phase, logMode, result, interp,
                 rejected, sleeping, sleepAt, toutAt, iterations, settles>>

\* Rules whose top-level statements take the run to its first sleep before, or
\* only after, the harness calls getInput; and one that does not sleep.
AliasCalls ==
  {Call(Prog(<<Busy(c)>>, <<>>, v), <<PatchA>>, nullMeta, "capture") :
     c \in {maxStepIterationsBeforeSleep, maxStepIterationsBeforeSleep + 1},
     v \in {"sanity", "length"}}
  \cup {Call(Prog(<<>>, <<Console("log", <<Hello>>)>>, "sanity"), <<PatchA>>, nullMeta, "capture")}

NextAlias ==
  \/ CallerCalls(AliasCalls)
  \/ \E r \in Runs : Loop(r)
  \/ AdvanceClock
  \/ \E r \in Runs : CallerPushes(r)
  \/ \E r \in Runs : CallerRetargets(r)

SpecAlias == Init /\ [][NextAlias]_vars

---------------------------------------------------------------------------
(* The adapters, each called once.                                         *)

SpecGitHub == InitWith(0) /\ [][NextGitHub]_vars

SpecBitBucket == InitWith(0) /\ [][NextBitBucket]_vars

\* The caller sources a pull request from one of the forges.
NextAdapter ==
  \/ bb.stage = "idle" /\ NextGitHub
  \/ gh.stage = "idle" /\ NextBitBucket

SpecAdapter == InitWith(0) /\ [][NextAdapter]_vars

\* parseUnifiedDiff over the diff texts.
InitParse ==
  /\ InitRunRule(0)
  /\ fn \in {[name |-> "parseUnifiedDiff", arg |-> Some(in), ret |-> Null] : in \in DiffInputs}
NextParse == ParseUnifiedDiffReturns
SpecParse == InitParse /\ [][NextParse]_vars

\* diff over the pairs of trees.
InitDiff ==
  /\ InitRunRule(0)
  /\ fn \in {[name |-> "diff", arg |-> Some([previous |-> prev, current |-> cur]), ret |-> Null] :
               prev \in ObjectTrees, cur \in ObjectTrees}
NextDiff == DiffReturns
SpecDiff == InitDiff /\ [][NextDiff]_vars

---------------------------------------------------------------------------
(* Properties.                                                             *)

Called(r) == phase[r] # "NotCalled"
CodeOf(r) == Code(call[r].ruleFn)
Settled(r) == PromiseState(r) # "pending"
TimedOut(r) == PromiseState(r) = "rejected" /\ PromiseError(r) = TimeoutError

\* The statement the interpreter of r stands at, when it stands at one.
AtOp(r) == Called(r) /\ interp[r].pc <= Len(CodeOf(r))
CurrentOp(r) == CodeOf(r)[interp[r].pc]

\* The guest's execution never ends: it comes to while (true) {} and nothing
\* before that throws.
NeverEnds(ruleFn) ==
  \E i \in 1..Len(Code(ruleFn)) :
    /\ Code(ruleFn)[i].k = "loop"
    /\ \A j \in 1..(i - 1) : Code(ruleFn)[j].k \in {"console", "setOutput", "busy", "harnessGetInput"}

\* C1: a rule whose guest execution never terminates is eventually rejected with
\* the Timeout error "user defined rule timed out" and is never resolved, on a
\* host whose thread runs and whose timers fire.
C1_NonTerminatingRuleTimesOut ==
  \A r \in Runs :
    /\ [](Called(r) /\ NeverEnds(call[r].ruleFn) => PromiseState(r) # "resolved")
    /\ (Called(r) /\ NeverEnds(call[r].ruleFn)) ~> TimedOut(r)

C1_Witness ==
  \E r \in Runs :
    /\ Called(r)
    /\ NeverEnds(call[r].ruleFn)
    /\ TimedOut(r)
    /\ interp[r].pc <= Len(CodeOf(r))
    /\ CurrentOp(r).k = "loop"

\* The host identifiers a rule refers to, caught or not, and not caught.
References(ruleFn) ==
  {Code(ruleFn)[i].m : i \in {j \in 1..Len(Code(ruleFn)) :
                                 /\ Code(ruleFn)[j].k \in {"ref", "tryRef"}
                                 /\ Code(ruleFn)[j].m \in ForbiddenIds}}
UncaughtReferences(ruleFn) ==
  {Code(ruleFn)[i].m : i \in {j \in 1..Len(Code(ruleFn)) :
                                 /\ Code(ruleFn)[j].k = "ref"
                                 /\ Code(ruleFn)[j].m \in ForbiddenIds}}

NotDefined(identifier) == identifier \o " is not defined"

\* C2 as stated: every rule that references fetch, XMLHttpRequest, process or Deno
\* is rejected with "<identifier> is not defined" and never resolves.
C2_Original ==
  \A r \in Runs :
    Called(r) /\ References(call[r].ruleFn) # {} /\ Settled(r)
      => /\ PromiseState(r) = "rejected"
         /\ \E x \in References(call[r].ruleFn) : PromiseError(r) = NotDefined(x)

\* The thread is about to evaluate, outside any try statement, an identifier bound
\* neither by the host nor by the guest.
AtUnboundRef(r) ==
  /\ thread = r
  /\ phase[r] = "Running"
  /\ AtOp(r)
  /\ CurrentOp(r).k = "ref"
  /\ CurrentOp(r).m \notin interp[r].natives \cup interp[r].guestNames

\* C2 (amended): the host binds only getInput, setOutput and console; a run that
\* evaluates any other host identifier outside a guest try/catch is rejected at that
\* step with "<identifier> is not defined", the step having no effect on the host
\* or on the result; a run that resolves has no uncaught reference of the kind.
C2_SandboxIsolation ==
  /\ [](\A r \in Runs :
          /\ interp[r].natives \subseteq {"getInput", "setOutput", "console"}
          /\ interp[r].natives \cap ForbiddenIds = {}
          /\ PromiseState(r) = "resolved" => UncaughtReferences(call[r].ruleFn) = {})
  /\ [][\A r \in Runs :
          AtUnboundRef(r) /\ <<interp[r], phase[r]>>' # <<interp[r], phase[r]>>
            => /\ PromiseState(r)' = "rejected"
               /\ settles'[r][Len(settles'[r])].error = NotDefined(CurrentOp(r).m)
               /\ Len(settles'[r]) = 1
               /\ phase'[r] = "Returned"
               /\ hostConsole' = hostConsole
               /\ result' = result]_vars

C2_Witness ==
  \E r \in Runs :
    /\ PromiseState(r) = "rejected"
    /\ PromiseError(r) = "fetch is not defined"
    /\ AtOp(r)
    /\ CurrentOp(r) = Ref("fetch")
    /\ result[r].logs # <<>>

\* main has returned, and what it returned.
IdxMain(ruleFn) == Len(ruleFn.top) + 1 + Len(ruleFn.body) + 1
MainReturned(r) == Called(r) /\ interp[r].pc > IdxMain(call[r].ruleFn)
ReturnedNonBoolean(r) == MainReturned(r) /\ TypeOf(interp[r].out) # "boolean"

MustReturnBoolean(e) ==
  \E v \in {VStr("hello world"), VNum("0"), VNum("1"), VNum("2"), VUndefined} :
    e = "main function must return boolean" \o " (returned " \o ToStr(v) \o ")"

\* C3 as stated: a rule whose main returns a non-boolean is rejected with an error
\* that starts with "main function must return boolean".
C3_Original ==
  \A r \in Runs :
    ReturnedNonBoolean(r) /\ Settled(r)
      => PromiseState(r) = "rejected" /\ MustReturnBoolean(PromiseError(r))

\* C3 (amended): a rule whose main returns a non-boolean never resolves and the
\* harness never comes to its setOutput call; the run is rejected with an error
\* that starts with "main function must return boolean" when the harness check
\* executes, and with the timeout error when the timeout fires at a sleep between
\* main's return and the check.
C3_BooleanEnforcement ==
  \A r \in Runs :
    ReturnedNonBoolean(r)
      => /\ PromiseState(r) # "resolved"
         /\ interp[r].pc = IdxMain(call[r].ruleFn) + 1
         /\ CurrentOp(r) = HarnessCheck
         /\ Settled(r) => MustReturnBoolean(PromiseError(r)) \/ TimedOut(r)
         /\ phase[r] = "Returned" => MustReturnBoolean(PromiseError(r))
         /\ TimedOut(r) => phase[r] = "Sleeping"

C3_Witness ==
  \E r \in Runs :
    /\ ReturnedNonBoolean(r)
    /\ PromiseState(r) = "rejected"
    /\ PromiseError(r) = "main function must return boolean (returned hello world)"
    /\ result[r].approve = VStr("yes")

\* C4: whenever runRule resolves, approve is a boolean, the value main returned
\* for the JSON round trip of the arguments, whatever the guest did with setOutput.
C4_ApproveIsMainsValue ==
  \A r \in Runs :
    PromiseState(r) = "resolved"
      => /\ TypeOf(PromiseValue(r).approve) = "boolean"
         /\ PromiseValue(r).approve
              = EvalRet(call[r].ruleFn.ret, getInput(call[r].patchList, call[r].metadata))

\* The lifecycle of an invocation.
Status(r) ==
  IF phase[r] = "NotCalled" THEN "NotCalled"
  ELSE IF PromiseState(r) = "resolved" THEN "Settled"
  ELSE IF TimedOut(r) THEN "TimedOut"
  ELSE IF PromiseState(r) = "rejected" THEN "Failed"
  ELSE IF phase[r] = "Constructed" THEN "Constructed"
  ELSE "Running"

Terminal(status) == status \in {"Settled", "TimedOut", "Failed"}

Transitions ==
  {<<"NotCalled", "Constructed">>, <<"Constructed", "Running">>,
   <<"Running", "Settled">>, <<"Running", "TimedOut">>, <<"Running", "Failed">>}

\* C5: an invocation goes Constructed -> Running -> exactly one of Settled,
\* TimedOut, Failed; resolve or reject is called once at most, an async function
\* that has returned has settled its promise, and once the promise is settled
\* neither its outcome nor the result object changes.
C5_Lifecycle ==
  /\ [](\A r \in Runs :
          /\ Len(settles[r]) <= 1
          /\ phase[r] = "Returned" => Settled(r)
          /\ Settled(r) => phase[r] \in {"Returned", "Sleeping"})
  /\ [][\A r \in Runs :
          /\ Status(r)' = Status(r) \/ <<Status(r), Status(r)'>> \in Transitions
          /\ Terminal(Status(r))
               => /\ Status(r)' = Status(r)
                  /\ settles'[r] = settles[r]
                  /\ PromiseValue(r)' = PromiseValue(r)]_vars

C5_Witness ==
  \E r \in Runs :
    /\ Status(r) = "TimedOut"
    /\ phase[r] = "Sleeping"
    /\ sleeping[r]
    /\ sleepAt[r] = -1
    /\ now >= maxUDRRuntime
    /\ result[r].logs # <<>>

\* The guest's console calls, in program order.
IsConsoleCall(op) == op.k = "console"
ConsoleCalls(ruleFn) == SelectSeq(Code(ruleFn), IsConsoleCall)

\* C6: in Capture mode the logs of a resolved runRule are one entry per console
\* call of the guest, in program order; in Drop mode (also when opts or
\* opts.logMode is absent) and in Console mode they are empty.
C6_LogsInProgramOrder ==
  \A r \in Runs :
    PromiseState(r) = "resolved"
      => IF call[r].opts = "capture"
         THEN /\ Len(PromiseValue(r).logs) = Len(ConsoleCalls(call[r].ruleFn))
              /\ \A i \in 1..Len(ConsoleCalls(call[r].ruleFn)) :
                   PromiseValue(r).logs[i]
                     = [level |-> LevelOf(ConsoleCalls(call[r].ruleFn)[i].m),
                        msg |-> objsToString(ConsoleCalls(call[r].ruleFn)[i].args)]
         ELSE PromiseValue(r).logs = <<>>

\* Two calls, a sleep between them.
C6_Witness ==
  \E r \in Runs :
    /\ PromiseState(r) = "resolved"
    /\ call[r].opts = "capture"
    /\ sleeping[r]
    /\ PromiseValue(r).logs
         = <<[level |-> "info", msg |-> "hello"], [level |-> "warn", msg |-> "world"]>>

\* The console calls executed so far.
ExecutedConsoleCalls(r) ==
  SelectSeq(SubSeq(CodeOf(r), 1, interp[r].pc - 1), IsConsoleCall)

ClaimedLevel ==
  [log |-> "info", info |-> "info", debug |-> "debug", warn |-> "warn", error |-> "error"]

RECURSIVE ClaimedMsg(_)
ClaimedMsg(objs) ==
  IF Len(objs) = 0 THEN ""
  ELSE IF Len(objs) = 1 THEN ToStr(objs[1])
  ELSE ClaimedMsg(SubSeq(objs, 1, Len(objs) - 1)) \o " " \o ToStr(objs[Len(objs)])

\* C7: every captured entry has the level of the console method that made it
\* (log and info: info, debug: debug, warn: warn, error: error) and as msg the
\* string coercions of the call's arguments joined by single spaces.
C7_LevelAndMessage ==
  \A r \in Runs :
    Called(r) /\ call[r].opts = "capture"
      => /\ Len(result[r].logs) = Len(ExecutedConsoleCalls(r))
         /\ \A i \in 1..Len(result[r].logs) :
              /\ result[r].logs[i].level = ClaimedLevel[ExecutedConsoleCalls(r)[i].m]
              /\ result[r].logs[i].msg = ClaimedMsg(ExecutedConsoleCalls(r)[i].args)

\* console.log("hello", "world") yields the msg "hello world", level info.
C7_Witness ==
  \E r \in Runs :
    /\ Called(r)
    /\ call[r].ruleFn.body = <<Console("log", <<Hello, World>>)>>
    /\ result[r].logs = <<[level |-> "info", msg |-> "hello world"]>>

\* C8: only a run whose step loop ran to completion returns a record: a resolved
\* promise belongs to a program that ran to its end without timing out, and every
\* run that stopped before the end of its program (timeout, guest exception,
\* non-boolean result) is rejected, the caller receiving the error alone.
C8_FailuresReturnNoRecord ==
  \A r \in Runs :
    /\ PromiseState(r) = "resolved"
         => interp[r].pc > Len(CodeOf(r)) /\ phase[r] = "Returned" /\ ~rejected[r]
    /\ Settled(r) /\ AtOp(r)
         => /\ PromiseState(r) = "rejected"
            /\ settles[r] = <<RejectCall(PromiseError(r))>>

\* A guest exception after a captured log entry and an executed setOutput.
C8_Witness ==
  \E r \in Runs :
    /\ PromiseState(r) = "rejected"
    /\ PromiseError(r) = "boom"
    /\ result[r].approve = VTrue
    /\ result[r].logs = <<[level |-> "error", msg |-> "hello"]>>

---------------------------------------------------------------------------
(* An invocation run alone, from its construction to the end of its step   *)
(* loop, no sleep and no other invocation between its steps.               *)

RECURSIVE RunAlone(_, _, _, _)
RunAlone(c, st, res, hc) ==
  LET s == InterpreterStep(c, LogModeOf(c.opts), st, res, hc)
  IN  IF s.ret = "true" THEN RunAlone(c, s.interp, s.result, s.hostConsole) ELSE s

Alone == [c \in PairCalls |-> RunAlone(c, NewInterpreter, NewResult, <<>>)]

C10_NoSharedState ==
  \A r \in Runs :
    /\ PromiseState(r) = "resolved"
         => /\ Alone[call[r]].ret = "false"
            /\ PromiseValue(r) = Alone[call[r]].result
    /\ PromiseState(r) = "rejected" /\ ~TimedOut(r)
         => /\ Alone[call[r]].ret = "throw"
            /\ PromiseError(r) = Alone[call[r]].err

\* One run has resolved after its sleep while the other, called before the first
\* woke up and having logged, is still asleep.
C10_Witness ==
  /\ call[1] # call[2]
  /\ PromiseState(1) = "resolved"
  /\ sleeping[1]
  /\ Len(PromiseValue(1).logs) = 2
  /\ phase[2] = "Sleeping"
  /\ sleepAt[2] = now
  /\ result[2].logs # <<>>

\* C11: what the harness reads from getInput() is the serialization of the patch
\* list and the metadata as they were when runRule was invoked, whatever another
\* host task did to the caller's objects while the rule was suspended.
C11_InputIsSnapshotAtInvocation ==
  \A r \in Runs :
    Called(r) /\ interp[r].inp # <<>>
      => interp[r].inp[1] = getInput(invoked[r].patchList, invoked[r].metadata)

---------------------------------------------------------------------------
(* The adapters' properties.                                               *)

\* The number of patches the files before the k-th yield: two for a rename, one
\* for any other file.
PatchesBefore(files, k) ==
  (k - 1) + Cardinality({j \in 1..(k - 1) : files[j].status = "renamed"})

\* C12: patchFromGitHubPullRequest translates each listed file by its status:
\* added or copied yields one Insert patch, removed one Delete, changed or
\* modified one Modified, each at path filename with the entry's additions and
\* deletions; renamed yields the two patches Delete at previous_filename and
\* Insert at filename, both with diff [] and objectDiff null; a rename without
\* previous_filename or any other status makes the call fail, and no
\* PullRequestPatches is returned.
C12_StatusTable ==
  LET files == gh.pr.files
      Bad(f) == \/ f.status = "renamed" /\ f.previous_filename = ""
                \/ f.status \notin {"added", "copied", "removed", "changed", "modified", "renamed"}
      OpOf(f) == CASE f.status \in {"added", "copied"} -> "insert"
                   [] f.status = "removed" -> "delete"
                   [] OTHER -> "modified"
  IN  /\ gh.stage \in {"files", "done"} => Len(gh.patchList) = PatchesBefore(files, gh.next)
      /\ \A k \in 1..Len(files) :
           LET f == files[k]
               at == PatchesBefore(files, k)
           IN  /\ Bad(f) => gh.out = Null
               /\ Bad(f) /\ gh.stage = "done" /\ gh.next = k => gh.outcome = "rejected"
               /\ k < gh.next =>
                    /\ ~Bad(f)
                    /\ IF f.status = "renamed"
                       THEN /\ gh.patchList[at + 1].path = f.previous_filename
                            /\ gh.patchList[at + 1].op = "delete"
                            /\ gh.patchList[at + 2].path = f.filename
                            /\ gh.patchList[at + 2].op = "insert"
                            /\ \A i \in {at + 1, at + 2} :
                                 gh.patchList[i].diff = <<>> /\ gh.patchList[i].objectDiff = Null
                       ELSE /\ gh.patchList[at + 1].path = f.filename
                            /\ gh.patchList[at + 1].op = OpOf(f)
                            /\ gh.patchList[at + 1].additions = f.additions
                            /\ gh.patchList[at + 1].deletions = f.deletions

\* A call has returned the three patches of a rename and a modification.
C12_Witness ==
  /\ gh.outcome = "resolved"
  /\ Len(gh.pr.files) = 2
  /\ gh.pr.files[1].status = "renamed"
  /\ Len(gh.out[1].patchList) = 3
  /\ gh.out[1].patchList[3].op = "modified"

\* A call was rejected at a file whose status the switch does not know.
C12_WitnessUnknownStatus ==
  /\ gh.outcome = "rejected"
  /\ gh.next <= Len(gh.pr.files)
  /\ gh.error = UnknownStatusError(gh.pr.files[gh.next])

\* The contents fetched for path, in the order of their arrival.
ContentsOf(path) == SelectSeq(gh.contents, LAMBDA c : c.path = path)

\* The file of pulls.listFiles the i-th patch comes from.
FileOfPatch(files, i) ==
  CHOOSE k \in 1..Len(files) :
    PatchesBefore(files, k) < i /\ i <= PatchesBefore(files, k + 1)

\* What C16 says of the patches of the files Covered holds of.
ObjectDiffByOp(Covered(_)) ==
  \A i \in 1..Len(gh.patchList) :
    LET p == gh.patchList[i]
        got == ContentsOf(p.path)
        requested == SelectSeq(gh.requests,
                               LAMBDA q : q.api = "repos.getContent" /\ q.path = p.path)
        parser == CASE ExtOf(p.path) = "json" -> "JSON.parse"
                    [] ExtOf(p.path) = "json5" -> "JSON5.parse"
                    [] ExtOf(p.path) \in {"yaml", "yml"} -> "YAML.parse"
                    [] OTHER -> "toml.parse"
        Tree(c) == Parse(parser, c.text).tree
    IN  Covered(gh.pr.files[FileOfPatch(gh.pr.files, i)]) =>
          IF ExtOf(p.path) \notin {"json", "json5", "yaml", "yml", "toml"}
          THEN p.objectDiff = Null /\ requested = <<>>
          ELSE CASE p.op = "insert" ->
                      /\ [j \in 1..Len(requested) |-> requested[j].ref] = <<HeadRef>>
                      /\ p.objectDiff = Some([previous |-> Null, current |-> Some(Tree(got[1])),
                                              diff |-> <<>>])
                 [] p.op = "delete" ->
                      /\ [j \in 1..Len(requested) |-> requested[j].ref] = <<BaseRef>>
                      /\ p.objectDiff = Some([previous |-> Some(Tree(got[1])), current |-> Null,
                                              diff |-> <<>>])
                 [] p.op = "modified" ->
                      /\ [j \in 1..Len(requested) |-> requested[j].ref] = <<BaseRef, HeadRef>>
                      /\ p.objectDiff = Some([previous |-> Some(Tree(got[1])),
                                              current |-> Some(Tree(got[2])),
                                              diff |-> diff(Tree(got[1]), Tree(got[2]))])
                      /\ (p.objectDiff[1].diff = <<>>) = (Tree(got[1]) = Tree(got[2]))

\* C16 (amended): of every patch patchFromGitHubPullRequest makes of a file that
\* is not renamed: when the extension of filename is not json, json5, yaml, yml or
\* toml, objectDiff is null and no content is fetched; otherwise an Insert
\* fetches the head only and has {previous: null, current: parsed, diff: []}, a
\* Delete fetches the base only and has {previous: parsed, current: null,
\* diff: []}, a Modified fetches base then head and has both trees and their
\* structural diff.
C16_ObjectDiffByOp == ObjectDiffByOp(LAMBDA f : f.status # "renamed")

\* C16 as stated: the same of every patch, those of a renamed file included.
C16_Original == ObjectDiffByOp(LAMBDA f : TRUE)

\* A modified structured file was translated: base and head fetched, the trees
\* differ.
C16_Witness ==
  /\ gh.outcome = "resolved"
  /\ \E i \in 1..Len(gh.patchList) :
       /\ gh.patchList[i].op = "modified"
       /\ gh.patchList[i].objectDiff # Null
       /\ gh.patchList[i].objectDiff[1].diff # <<>>
       /\ Len(gh.contents) = 2

C18_OutcomeByDescription ==
  LET d == gh.pr.description
      NoFrontMatter == d.isNull \/ d.text = "" \/ ~d.parsable
      HasFensakKey == ~NoFrontMatter /\ d.fensak.t # "undefined"
      Extracted == gh.stage \notin {"idle", "pulls.get"}
      Lookups == SelectSeq(gh.requests, LAMBDA q : q.api = "pulls.get")
  IN  /\ NoFrontMatter \/ ~HasFensakKey =>
           /\ gh.linkedPRs = <<>>
           /\ Len(Lookups) <= 1
           /\ gh.error # FrontMatterError("github")
           /\ Extracted /\ gh.stage # "done" => gh.outcome = "pending"
      /\ HasFensakKey /\ d.linked.t = "undefined" =>
           /\ gh.out = Null
           /\ Extracted => gh.outcome = "rejected"
           /\ Extracted /\ gh.error # ForgeError => gh.error = FrontMatterError("github")

\* What C19 says of a call st of an adapter.
LinkedInOrder(st) ==
  LET entries == st.pr.description.linked.items
      Complete == /\ Len(st.linkedPRs) = Len(entries)
                  /\ \A i \in 1..Len(entries) :
                       /\ st.lookups[i].done
                       /\ st.linkedPRs[i] = st.lookups[i].value
                       /\ st.linkedPRs[i].prNum = entries[i].prNum
  IN  LinkedOutcome(st.pr.description) = "lookups" =>
        /\ st.linkedPRs = <<>> \/ Complete
        /\ st.out # Null => Complete /\ st.out[1].metadata.linkedPRs = st.linkedPRs
        /\ st.stage \notin {"idle", "pulls.get", "linked", "done"} => Complete
        /\ (\E i \in 1..Len(st.lookups) : ~st.lookups[i].done) =>
             st.linkedPRs = <<>> /\ st.out = Null

\* C19: metadata.linkedPRs has one entry for each element of fensak.linked, in
\* the order of the front matter, whatever the order in which the lookups
\* complete; when a lookup fails the call fails and no partial list is returned.
C19_LinkedInOrder == LinkedInOrder(gh)

\* Two lookups completed in the reverse of their order in the front matter, and
\* the call returned.
C19_Witness ==
  /\ gh.outcome = "resolved"
  /\ gh.completed = <<2, 1>>
  /\ gh.out[1].metadata.linkedPRs[1].prNum = 1
  /\ gh.out[1].metadata.linkedPRs[2].prNum = 2

\* A lookup failed after another had completed.
C19_WitnessFailure ==
  /\ gh.outcome = "rejected"
  /\ gh.error = ForgeError
  /\ Len(gh.completed) = 1
  /\ Len(gh.lookups) = 2

\* What C20 says of a call st of an adapter that asks the forge through api.
LinkedRepoAsGiven(st, api) ==
  LET entries == st.pr.description.linked.items
  IN  LinkedOutcome(st.pr.description) = "lookups" /\ Len(st.lookups) = Len(entries) =>
        \A i \in 1..Len(entries) :
          LET l == entries[i]
              given == l.hasRepo /\ l.repo # ""
          IN  /\ st.requests[1 + i] =
                   [api |-> api, owner |-> HostRepo.owner,
                    repo |-> IF given THEN l.repo ELSE HostRepo.name,
                    n |-> l.prNum, path |-> "", ref |-> ""]
              /\ st.lookups[i].done =>
                   /\ st.lookups[i].value.repo = (IF given THEN l.repo ELSE "")
                   /\ st.lookups[i].value.prNum = l.prNum

\* C20: for every entry of fensak.linked: without repo (or with an empty one)
\* the forge is asked for prNum in the host pull request's repository and
\* LinkedPR.repo is ""; with repo it is asked in that repository under the
\* host's owner and LinkedPR.repo is the name given; prNum is copied.
C20_LinkedRepoAsGiven == LinkedRepoAsGiven(gh, "pulls.get")

\* A call returned a link into its own repository and a link into another.
C20_Witness ==
  /\ gh.outcome = "resolved"
  /\ Len(gh.out[1].metadata.linkedPRs) = 2
  /\ gh.out[1].metadata.linkedPRs[1].repo = ""
  /\ gh.out[1].metadata.linkedPRs[2].repo = OtherRepoName
  /\ gh.requests[2].repo = HostRepo.name
  /\ gh.requests[3].repo = OtherRepoName

\* The step ends parseBitBucketFileDiff for the chunk bb.next.
ChunkTranslated ==
  /\ bb.stage \in {"chunks", "content"}
  /\ bb.next <= Len(bb.pr.chunks)
  /\ bb'.next = bb.next + 1

\* The patches the step appends to the patch list.
Appended == SubSeq(bb'.patchList, Len(bb.patchList) + 1, Len(bb'.patchList))

\* C13: for every chunk of the combined diff whose --- a/<old> and +++ b/<new>
\* paths are both present and differ, patchFromBitBucketPullRequest emits
\* exactly three patches, Delete(old), Insert(new), Modified(new) in this order;
\* the third has the chunk's hunks and the objectDiff, the first two have
\* diff [] and objectDiff null.
C13_RenameThreePatches ==
  [][ChunkTranslated =>
       LET c == bb.pr.chunks[bb.next]
       IN  c.fileHeader /\ c.oldPath # "" /\ c.newPath # "" /\ c.oldPath # c.newPath =>
             /\ Len(Appended) = 3
             /\ Appended[1].op = "delete" /\ Appended[1].path = c.oldPath
             /\ Appended[2].op = "insert" /\ Appended[2].path = c.newPath
             /\ Appended[3].op = "modified" /\ Appended[3].path = c.newPath
             /\ \A i \in {1, 2} : Appended[i].diff = <<>> /\ Appended[i].objectDiff = Null
             /\ Appended[3].diff = parseUnifiedDiff(ChunkLines(c))
             /\ Appended[3].diff # <<>>
             /\ (Appended[3].objectDiff # Null)
                  = (ExtOf(c.newPath) \in {"json", "json5", "yaml", "yml", "toml"})]_vars

\* C14: a chunk whose source is /dev/null yields exactly one patch, an Insert at
\* the target path; a chunk whose target is /dev/null exactly one Delete at the
\* source path; a chunk with equal source and target paths exactly one Modified
\* at that path; every patch of this adapter has additions = 0 and deletions = 0.
C14_NonRenameOnePatch ==
  [][/\ \A i \in 1..Len(bb'.patchList) :
          bb'.patchList[i].additions = 0 /\ bb'.patchList[i].deletions = 0
     /\ ChunkTranslated =>
          LET c == bb.pr.chunks[bb.next]
          IN  /\ c.fileHeader /\ c.oldPath = "" =>
                   /\ Len(Appended) = 1
                   /\ Appended[1].op = "insert" /\ Appended[1].path = c.newPath
              /\ c.fileHeader /\ c.newPath = "" =>
                   /\ Len(Appended) = 1
                   /\ Appended[1].op = "delete" /\ Appended[1].path = c.oldPath
              /\ c.fileHeader /\ c.oldPath = c.newPath =>
                   /\ Len(Appended) = 1
                   /\ Appended[1].op = "modified" /\ Appended[1].path = c.oldPath]_vars

\* The tree the text fetched last for path at the commit ref parses to, if any.
FetchedTree(path, ref) ==
  LET got == SelectSeq(bb'.contents, LAMBDA t : t.path = path /\ t.ref = ref)
      parser == CASE ExtOf(path) = "json" -> "JSON.parse"
                  [] ExtOf(path) = "json5" -> "JSON5.parse"
                  [] ExtOf(path) \in {"yaml", "yml"} -> "YAML.parse"
                  [] OTHER -> "toml.parse"
  IN  IF got = <<>> THEN Null ELSE Some(Parse(parser, got[Len(got)].text).tree)

\* C15: in patchFromBitBucketPullRequest, the patch of a file whose path ends in
\* .json, .json5, .yaml, .yml or .toml has an objectDiff, by its op: Insert
\* {previous: null, current: the parsed head content, diff: []}; Delete
\* {previous: the parsed base content, current: null, diff: []}; Modified both
\* trees and the diff that enumerates their changes.  In particular the patch
\* of a deleted structured file has an objectDiff.
C15_ObjectDiffOfStructured ==
  [][ChunkTranslated =>
       LET c == bb.pr.chunks[bb.next]
           p == Appended[Len(Appended)]
           path == IF c.newPath = "" THEN c.oldPath ELSE c.newPath
           head == FetchedTree(c.newPath, CurHash)
           base == FetchedTree(c.oldPath, PrevHash)
       IN  c.fileHeader /\ ExtOf(path) \in {"json", "json5", "yaml", "yml", "toml"} =>
             /\ p.objectDiff # Null
             /\ CASE c.oldPath = "" ->
                       p.objectDiff[1] = [previous |-> Null, current |-> head, diff |-> <<>>]
                  [] c.newPath = "" ->
                       p.objectDiff[1] = [previous |-> base, current |-> Null, diff |-> <<>>]
                  [] OTHER ->
                       /\ p.objectDiff[1].previous = base /\ base # Null
                       /\ p.objectDiff[1].current = head /\ head # Null
                       /\ p.objectDiff[1].diff = diff(base[1], head[1])]_vars

\* What C21 says of a call st of an adapter: a fetched content the parser failed
\* on.
ParserFailureFails(st) ==
  (\E i \in 1..Len(st.contents) : st.contents[i].text = BrokenText) =>
    /\ st.outcome = "rejected"
    /\ st.error = ParseError
    /\ st.out = Null

\* C21: when the parser fails on the base or head content of a structured file,
\* patchFromGitHubPullRequest / patchFromBitBucketPullRequest fails with the
\* error: no PullRequestPatches is returned, neither one in which the patch has
\* objectDiff null nor one with a part of the patch list.
C21_ParserFailureFails == ParserFailureFails(gh) /\ ParserFailureFails(bb)

\* The parser failed on the content of the second file, after the first file's
\* patch was made.
C21_Witness ==
  /\ gh.outcome = "rejected"
  /\ gh.error = ParseError
  /\ Len(gh.patchList) = 1
  /\ gh.next = 2
  /\ gh.contents[Len(gh.contents)].text = BrokenText

\* The parser failed on the head content of a file modified at Bitbucket, after
\* it had parsed the base content.
C21_WitnessBitBucket ==
  /\ bb.outcome = "rejected"
  /\ bb.error = ParseError
  /\ Len(bb.contents) = 2
  /\ bb.contents[2].text = BrokenText

\* The diffOperations of a hunk whose op is one of ops.
OpsCount(h, ops) ==
  Cardinality({i \in 1..Len(h.diffOperations) : h.diffOperations[i].op \in ops})
HunkArithmetic(h) ==
  /\ OpsCount(h, {"delete", "modified", "untouched"}) = h.originalLength
  /\ OpsCount(h, {"insert", "modified", "untouched"}) = h.updatedLength
ParseReturned == fn.name = "parseUnifiedDiff" /\ fn.ret # Null

\* The removed line begins "--" or the added line begins "++", so that the line
\* of the diff begins "---" or "+++".
LooksLikeFileHeader(l) ==
  \/ l.kind = "removed" /\ l.content \in DashContents
  \/ l.kind = "added" /\ l.content \in PlusContents

RECURSIVE Apply(_, _)
Apply(tree, d) ==
  LET key == d.path[1].key
  IN  IF Len(d.path) > 1
      THEN [tree EXCEPT !.members =
              [i \in 1..Len(tree.members) |->
                 IF tree.members[i].k = key
                 THEN Member(key, Apply(tree.members[i].v, [d EXCEPT !.path = Tail(d.path)]))
                 ELSE tree.members[i]]]
      ELSE CASE d.type = "CREATE" ->
                  [tree EXCEPT !.members = Append(tree.members, Member(key, d.value[1]))]
             [] d.type = "REMOVE" ->
                  [tree EXCEPT !.members = SelectSeq(tree.members, LAMBDA m : m.k # key)]
             [] d.type = "CHANGE" ->
                  [tree EXCEPT !.members =
                     [i \in 1..Len(tree.members) |->
                        IF tree.members[i].k = key THEN Member(key, d.value[1])
                        ELSE tree.members[i]]]
RECURSIVE ApplyAll(_, _)
ApplyAll(tree, ds) == IF ds = <<>> THEN tree ELSE ApplyAll(Apply(tree, ds[1]), Tail(ds))

\* The two trees are the same value: the order of a map's keys does not count.
RECURSIVE SameTree(_, _)
SameTree(a, b) ==
  /\ a.kind = b.kind
  /\ a.val = b.val
  /\ Keys(a) = Keys(b)
  /\ \A k \in Keys(a) : SameTree(ValueAt(a, k), ValueAt(b, k))

DiffReturned == fn.name = "diff" /\ fn.ret # Null
Inversion ==
  /\ SameTree(ApplyAll(fn.arg[1].previous, fn.ret[1]), fn.arg[1].current)
  /\ fn.ret[1] = <<>> <=> SameTree(fn.arg[1].previous, fn.arg[1].current)

FallsAsleep(r) == phase[r] # "Sleeping" /\ phase'[r] = "Sleeping"

\* C24: the step loop yields after every 100 micro-steps: when it goes to sleep,
\* exactly maxStepIterationsBeforeSleep calls of step() have returned true since
\* the loop began or since the last sleep, and the sleep lasts
\* sleepBetweenStepIterations ms.
C24_YieldEveryNSteps ==
  [][\A r \in Runs :
       FallsAsleep(r) =>
         /\ iterations'[r] = maxStepIterationsBeforeSleep
         /\ sleepAt'[r] = now + sleepBetweenStepIterations]_vars

\* What the code does: the sleep comes after maxStepIterationsBeforeSleep + 1
\* micro-steps.
C24_YieldEveryNPlusOneSteps ==
  [][\A r \in Runs :
       FallsAsleep(r) =>
         /\ iterations'[r] = maxStepIterationsBeforeSleep + 1
         /\ sleepAt'[r] = now + sleepBetweenStepIterations]_vars

\* C25: once the timeout has fired, the pending sleep is cancelled, the promise
\* is rejected with the timeout error, and no step of the invocation is executed
\* any more: the interpreter, the result record, the logs and the host's console
\* stay as they are.
C25_NothingAfterTimeout ==
  /\ [](\A r \in Runs : rejected[r] => TimedOut(r) /\ sleepAt[r] = -1 /\ toutAt[r] = -1)
  /\ [][\A r \in Runs :
          rejected[r] =>
            /\ interp'[r] = interp[r]
            /\ result'[r] = result[r]
            /\ hostConsole' = hostConsole
            /\ settles'[r] = settles[r]]_vars

\* A run that logged, slept and was timed out in its sleep, after time has
\* passed beyond the timeout.
C25_Witness ==
  \E r \in Runs :
    /\ rejected[r]
    /\ TimedOut(r)
    /\ sleeping[r]
    /\ iterations[r] = maxStepIterationsBeforeSleep + 1
    /\ result[r].logs # <<>>
    /\ result[r].approve # NewResult.approve
    /\ CurrentOp(r).k = "loop"

\* C28: no timer outlives an invocation: once the promise of an invocation is
\* settled, neither its timeout timer nor a sleep timer of its loop is pending.
C28_NoTimerOutlivesRun ==
  \A r \in Runs : Settled(r) => toutAt[r] = -1 /\ sleepAt[r] = -1

\* A run that slept and then resolved, and a run that threw after its sleep,
\* with time passed.
C28_Witness ==
  \E r \in Runs :
    /\ PromiseState(r) = "resolved"
    /\ phase[r] = "Returned"
    /\ sleeping[r]
    /\ now >= sleepBetweenStepIterations
    /\ toutAt[r] = -1
C28_WitnessFailed ==
  \E r \in Runs :
    /\ PromiseState(r) = "rejected"
    /\ ~TimedOut(r)
    /\ sleeping[r]
    /\ now >= sleepBetweenStepIterations
    /\ toutAt[r] = -1

C27_WitnessTimeout ==
  \E r \in Runs :
    /\ MicroSteps(call[r].ruleFn) = StepBudget + 1
    /\ TimedOut(r)
    /\ interp[r].pc > Len(CodeOf(r))
    /\ result[r].approve = VTrue
C27_WitnessOneBatch ==
  \E r \in Runs :
    /\ MicroSteps(call[r].ruleFn) = maxStepIterationsBeforeSleep + 1
    /\ PromiseState(r) = "resolved"
    /\ ~sleeping[r]
    /\ now = maxUDRRuntime

\* The step ends getPatchesFromPRFile for the file gh.next.
FileTranslated ==
  /\ gh.stage \in {"files", "content"}
  /\ gh.next <= Len(gh.pr.files)
  /\ gh'.next = gh.next + 1
AppendedGitHub == SubSeq(gh'.patchList, Len(gh.patchList) + 1, Len(gh'.patchList))

C26_WitnessGitHub ==
  /\ gh.outcome = "resolved"
  /\ Len(gh.pr.files) = 2
  /\ [i \in 1..Len(gh.out[1].patchList) |-> gh.out[1].patchList[i].path]
       = <<"old.json", "app.json", "vars.tfvars">>

\* The file diffs parseBitBucketDiff has made of the chunks are at hand.
Scanned == bb.stage \in {"chunks", "content"} \/ bb.outcome = "resolved"

\* C29: what parseBitBucketDiff makes of a chunk depends on the chunk's file
\* header only: oFname and tFname are the paths of its --- and +++ lines ("" for
\* /dev/null) whatever the lines of its hunks read, and a chunk whose two paths
\* are equal yields one patch, not the three of a rename.
C29_HeaderLinesOnly ==
  /\ [](Scanned =>
          \A k \in 1..Len(bb.pr.chunks) :
            bb.pr.chunks[k].fileHeader =>
              /\ bb.fdiffs[k].oFname = bb.pr.chunks[k].oldPath
              /\ bb.fdiffs[k].tFname = bb.pr.chunks[k].newPath)
  /\ [][ChunkTranslated =>
          LET c == bb.pr.chunks[bb.next]
          IN  c.fileHeader /\ c.oldPath = c.newPath => Len(Appended) = 1]_vars

\* C30: every patch patchFromBitBucketPullRequest makes has a path that is not
\* empty, also the patch of a chunk without --- and +++ lines.
C30_PathNotEmpty ==
  \A i \in 1..Len(bb.patchList) : bb.patchList[i].path # ""

====
